---- MODULE Spec2Model ----
(***************************************************************************)
(* Model of experiments/viewer/streamlit_app.py: the cached DynamoDB       *)
(* loader (load_dynamodb_data under st.cache_data(ttl=300)), the record    *)
(* formatter (format_repo_data) and the part of main() that loads,         *)
(* formats, guards against "no data" and shows the overview statistics and *)
(* the leaderboard.                                                        *)
(*                                                                         *)
(* Python values are tagged records.  A str is the sequence of its         *)
(* characters, each the number of its Unicode code point, so that float()  *)
(* and int() really parse it.  A Decimal is a sign, its digits (as         *)
(* characters) and a power of ten.  An int is a sign and a whole      *)
(* number of any size.  A float is an IEEE-754 double: a sign, an odd      *)
(* whole number and a power of two, or a zero, an infinity or nan; float   *)
(* conversion, addition and division round to the nearest double, ties to  *)
(* the even one, as the hardware does.  Whole numbers of any size are      *)
(* sequences of limbs, the least significant first.                        *)
(***************************************************************************)
EXTENDS Integers, Sequences, FiniteSets, TLC

VARIABLES store, failure, pageSize, now, cache, sess, runs, call, ui, fcall

vars == <<store, failure, pageSize, now, cache, sess, runs, call, ui, fcall>>

Min(a, b) == IF a <= b THEN a ELSE b

Max(a, b) == IF a >= b THEN a ELSE b

Abs(a) == IF a < 0 THEN -a ELSE a

\* ------------------------------------------------------------------------
\* Whole numbers of any size (Python's int, the mantissas of conversions)
\* ------------------------------------------------------------------------

\* A whole number >= 0 is the sequence of its limbs in base 2^15, the least
\* significant first, the last one not 0; <<>> is 0.
LimbBits == 15

Base == 32768

Limb(a, i) == IF i <= Len(a) THEN a[i] ELSE 0

\* The one element of a set of one element: The({f(x) : x \in {e}}) is f(e)
\* with e computed once.
The(S) == CHOOSE x \in S : TRUE

\* a without the 0 limbs it ends with.
Norm(a) ==
    IF \A i \in 1..Len(a) : a[i] = 0 THEN <<>>
    ELSE SubSeq(a, 1, CHOOSE i \in 1..Len(a) :
                          a[i] # 0 /\ \A j \in (i + 1)..Len(a) : a[j] = 0)

\* The limbs of n >= 0.
RECURSIVE NatOf(_)
NatOf(n) == IF n = 0 THEN <<>> ELSE <<n % Base>> \o NatOf(n \div Base)

\* The number the limbs a write, where it is small.
RECURSIVE SmallOf(_)
SmallOf(a) == IF a = <<>> THEN 0 ELSE Head(a) + Base * SmallOf(Tail(a))

\* The arithmetic goes through the limbs from one end to the other, a carry
\* going along; a stretch of limbs lo..hi is done in two halves, the carry
\* the first half leaves going into the second.

\* The limbs lo..hi of a + b, the carry c coming in, and the carry going out.
RECURSIVE AddRange(_, _, _, _, _)
AddRange(a, b, lo, hi, c) ==
    IF lo > hi THEN [s |-> <<>>, c |-> c]
    ELSE IF lo = hi
    THEN [s |-> <<(Limb(a, lo) + Limb(b, lo) + c) % Base>>,
          c |-> (Limb(a, lo) + Limb(b, lo) + c) \div Base]
    ELSE The({The({[s |-> low.s \o high.s, c |-> high.c] :
                   high \in {AddRange(a, b, (lo + hi) \div 2 + 1, hi,
                                      low.c)}}) :
              low \in {AddRange(a, b, lo, (lo + hi) \div 2, c)}})

\* a + b
BigAdd(a, b) ==
    The({r.s \o NatOf(r.c) :
         r \in {AddRange(a, b, 1, Max(Len(a), Len(b)), 0)}})

\* The limbs lo..hi of a - b, the borrow c coming in, and the borrow going
\* out.
RECURSIVE SubRange(_, _, _, _, _)
SubRange(a, b, lo, hi, c) ==
    IF lo > hi THEN [s |-> <<>>, c |-> c]
    ELSE IF lo = hi
    THEN [s |-> <<(Limb(a, lo) - Limb(b, lo) - c + Base) % Base>>,
          c |-> IF Limb(a, lo) - Limb(b, lo) - c < 0 THEN 1 ELSE 0]
    ELSE The({The({[s |-> low.s \o high.s, c |-> high.c] :
                   high \in {SubRange(a, b, (lo + hi) \div 2 + 1, hi,
                                      low.c)}}) :
              low \in {SubRange(a, b, lo, (lo + hi) \div 2, c)}})

\* a - b, for a >= b
BigSub(a, b) == Norm(SubRange(a, b, 1, Len(a), 0).s)

\* The limbs lo..hi of a * k, the carry c coming in, and the carry going out.
RECURSIVE MulRange(_, _, _, _, _)
MulRange(a, k, lo, hi, c) ==
    IF lo > hi THEN [s |-> <<>>, c |-> c]
    ELSE IF lo = hi
    THEN [s |-> <<(a[lo] * k + c) % Base>>, c |-> (a[lo] * k + c) \div Base]
    ELSE The({The({[s |-> low.s \o high.s, c |-> high.c] :
                   high \in {MulRange(a, k, (lo + hi) \div 2 + 1, hi,
                                      low.c)}}) :
              low \in {MulRange(a, k, lo, (lo + hi) \div 2, c)}})

\* a * k, for 0 <= k < Base
BigMul(a, k) ==
    IF k = 0 THEN <<>>
    ELSE The({r.s \o NatOf(r.c) : r \in {MulRange(a, k, 1, Len(a), 0)}})

\* -1, 0 or 1 as a < b, a = b or a > b: the last limb they differ in decides.
BigCmp(a, b) ==
    IF Len(a) # Len(b) THEN (IF Len(a) < Len(b) THEN -1 ELSE 1)
    ELSE IF a = b THEN 0
    ELSE The({IF a[i] < b[i] THEN -1 ELSE 1 :
              i \in {CHOOSE i \in 1..Len(a) :
                         a[i] # b[i]
                         /\ \A j \in (i + 1)..Len(a) : a[j] = b[j]}})

\* The limbs lo..hi of the quotient of a by d, the remainder r of the limbs
\* above hi coming in, and the remainder going out below lo.
RECURSIVE DivRange(_, _, _, _, _)
DivRange(a, d, lo, hi, r) ==
    IF lo > hi THEN [q |-> <<>>, r |-> r]
    ELSE IF lo = hi
    THEN [q |-> <<(r * Base + a[lo]) \div d>>, r |-> (r * Base + a[lo]) % d]
    ELSE The({The({[q |-> low.q \o high.q, r |-> low.r] :
                   low \in {DivRange(a, d, lo, (lo + hi) \div 2, high.r)}}) :
              high \in {DivRange(a, d, (lo + hi) \div 2 + 1, hi, r)}})

\* a divided by d, 0 < d < Base: the quotient q and the remainder r.
BigDiv(a, d) ==
    The({[q |-> Norm(qr.q), r |-> qr.r] :
         qr \in {DivRange(a, d, 1, Len(a), 0)}})

RECURSIVE Pow2(_)
Pow2(n) == IF n = 0 THEN 1 ELSE 2 * Pow2(n - 1)

\* The number of bits of n >= 0.
RECURSIVE Bits(_)
Bits(n) == IF n = 0 THEN 0 ELSE 1 + Bits(n \div 2)

\* The number of bits of a.
BitLen(a) ==
    IF a = <<>> THEN 0 ELSE (Len(a) - 1) * LimbBits + Bits(a[Len(a)])

\* a * 2^s
ShiftLeft(a, s) ==
    IF a = <<>> THEN <<>>
    ELSE [i \in 1..(s \div LimbBits) |-> 0] \o BigMul(a, Pow2(s % LimbBits))

\* a \div 2^s
ShiftRight(a, s) ==
    IF s \div LimbBits >= Len(a) THEN <<>>
    ELSE BigDiv(SubSeq(a, s \div LimbBits + 1, Len(a)), Pow2(s % LimbBits)).q

\* Bit j of a, bit 0 being the lowest.
TestBit(a, j) ==
    (Limb(a, j \div LimbBits + 1) \div Pow2(j % LimbBits)) % 2 = 1

\* The lowest s bits of a are all 0.
LowZero(a, s) ==
    /\ \A i \in 1..Min(s \div LimbBits, Len(a)) : a[i] = 0
    /\ Limb(a, s \div LimbBits + 1) % Pow2(s % LimbBits) = 0

\* The number of 0 bits n > 0 ends with.
RECURSIVE LowBits(_)
LowBits(n) == IF n % 2 = 1 THEN 0 ELSE 1 + LowBits(n \div 2)

\* The index of the first limb of a # <<>> that is not 0.
FirstLimb(a) ==
    CHOOSE i \in 1..Len(a) : a[i] # 0 /\ \A j \in 1..(i - 1) : a[j] = 0

\* The number of 0 bits a # <<>> ends with.
TrailingZeros(a) ==
    (FirstLimb(a) - 1) * LimbBits + LowBits(a[FirstLimb(a)])

\* 10^k for k <= 4
RECURSIVE Pow10(_)
Pow10(k) == IF k = 0 THEN 1 ELSE 10 * Pow10(k - 1)

\* a * 10^k, by halves of k
RECURSIVE TimesPow10(_, _)
TimesPow10(a, k) ==
    IF k <= 4 THEN BigMul(a, Pow10(k))
    ELSE The({TimesPow10(b, k - k \div 2) : b \in {TimesPow10(a, k \div 2)}})

\* a \div 10^k as q, and whether a remainder was left as rest, by halves of k.
RECURSIVE DivPow10(_, _, _)
DivPow10(a, k, rest) ==
    IF k <= 4
    THEN The({[q |-> d.q, rest |-> rest \/ d.r # 0] :
              d \in {BigDiv(a, Pow10(k))}})
    ELSE The({DivPow10(d.q, k - k \div 2, d.rest) :
              d \in {DivPow10(a, k \div 2, rest)}})

\* The printable ASCII characters from the space (U+0020) to the underscore
\* (U+005F), and from the small a (U+0061) to the tilde (U+007E), in the
\* order of their code points.
AsciiLow ==
    <<" ", "!", "\"", "#", "$", "%", "&", "'", "(", ")", "*", "+", ",", "-",
      ".", "/", "0", "1", "2", "3", "4", "5", "6", "7", "8", "9", ":", ";",
      "<", "=", ">", "?", "@", "A", "B", "C", "D", "E", "F", "G", "H", "I",
      "J", "K", "L", "M", "N", "O", "P", "Q", "R", "S", "T", "U", "V", "W",
      "X", "Y", "Z", "[", "\\", "]", "^", "_">>

AsciiHigh ==
    <<"a", "b", "c", "d", "e", "f", "g", "h", "i", "j", "k", "l", "m", "n",
      "o", "p", "q", "r", "s", "t", "u", "v", "w", "x", "y", "z", "{", "|",
      "}", "~">>

\* ord(c) of one of these characters.
Ord ==
    [c \in {AsciiLow[i] : i \in 1..Len(AsciiLow)}
           \cup {AsciiHigh[i] : i \in 1..Len(AsciiHigh)} |->
        IF \E i \in 1..Len(AsciiLow) : AsciiLow[i] = c
        THEN 31 + CHOOSE i \in 1..Len(AsciiLow) : AsciiLow[i] = c
        ELSE 96 + CHOOSE i \in 1..Len(AsciiHigh) : AsciiHigh[i] = c]

\* The str written with the printable ASCII characters s.
Text(s) == [i \in 1..Len(s) |-> Ord[s[i]]]

\* The decimal digits of n >= 0: <<>> for 0.
RECURSIVE DigitsOf(_)
DigitsOf(n) ==
    IF n = 0 THEN <<>> ELSE Append(DigitsOf(n \div 10), Ord["0"] + (n % 10))

\* ------------------------------------------------------------------------
\* Python values
\* ------------------------------------------------------------------------

\* A DynamoDB number, deserialised by boto3 as Decimal: (-1)^neg * ds * 10^e,
\* ds its digits without the zeros a number may begin with, <<>> for zero.
Decimal(neg, ds, e) == [t |-> "num", neg |-> neg, ds |-> ds, e |-> e]
\* The Decimal m * 10^e of a small whole number m.
DecimalV(m, e) == Decimal(m < 0, DigitsOf(Abs(m)), e)
\* A Python float: the finite (-1)^neg * m * 2^e with m odd, or m = <<>> for a
\* zero (k = "fin"), an infinity (k = "inf") or nan (k = "nan").
FloatV(k, neg, m, e) == [t |-> "float", k |-> k, neg |-> neg, m |-> m, e |-> e]
\* A Python int: (-1)^neg * m.
BigInt(neg, m) == [t |-> "int", neg |-> neg /\ m # <<>>, m |-> m]
\* The Python int of a small whole number n.
IntV(n) == BigInt(n < 0, NatOf(Abs(n)))
\* A Python bool (a DynamoDB BOOL attribute).
BoolV(b) == [t |-> "bool", b |-> b]
\* A Python str: the code points of its characters.
StrV(s) == [t |-> "str", s |-> s]
\* Python None (a DynamoDB NULL attribute).
None == [t |-> "null"]
\* A Python dict (a DynamoDB map attribute): a function on its keys.
DictV(m) == [t |-> "map", m |-> m]

EmptyDict == <<>>

\* The outcome of evaluating an expression: a value, or a raised exception.
Ok(v) == [ok |-> TRUE, v |-> v, exc |-> "none"]
Raise(e) == [ok |-> FALSE, v |-> None, exc |-> e]

\* a + b on ints.
IntAdd(a, b) ==
    IF a.neg = b.neg THEN BigInt(a.neg, BigAdd(a.m, b.m))
    ELSE IF BigCmp(a.m, b.m) >= 0 THEN BigInt(a.neg, BigSub(a.m, b.m))
    ELSE BigInt(b.neg, BigSub(b.m, a.m))

\* ------------------------------------------------------------------------
\* Floats: IEEE-754 binary64
\* ------------------------------------------------------------------------

\* A double has 53 bits; the lowest place of a double is 2^-1074; the doubles
\* end below 2^1024.
MantBits == 53

MinExp == -1074

MaxBits == 1024

Zero(neg) == FloatV("fin", neg, <<>>, 0)
Inf(neg)  == FloatV("inf", neg, <<>>, 0)
NaN       == FloatV("nan", FALSE, <<>>, 0)

\* The double (-1)^neg * m * 2^e of a whole number m that fits a double at
\* that place: the zeros m ends with go to the exponent; past the largest
\* double it is an infinity.
Finite(neg, m, e) ==
    IF m = <<>> THEN Zero(neg)
    ELSE IF BitLen(m) + e > MaxBits THEN Inf(neg)
    ELSE FloatV("fin", neg, ShiftRight(m, TrailingZeros(m)),
                e + TrailingZeros(m))

\* q without its lowest r > 0 bits, rounded to nearest, ties to even; rest
\* says that the number rounded lies above q.
RoundShift(q, r, rest) ==
    IF TestBit(q, r - 1) /\ (rest \/ ~LowZero(q, r - 1) \/ TestBit(q, r))
    THEN BigAdd(ShiftRight(q, r), <<1>>)
    ELSE ShiftRight(q, r)

\* The double nearest to (-1)^neg * (q + f) * 2^x, with 0 <= f < 1 and f > 0
\* iff rest.  Where rest holds, q has more bits than a double keeps.
Round(neg, q, rest, x) ==
    IF Max(x + BitLen(q) - MantBits, MinExp) <= x THEN Finite(neg, q, x)
    ELSE Finite(neg,
                RoundShift(q, Max(x + BitLen(q) - MantBits, MinExp) - x, rest),
                Max(x + BitLen(q) - MantBits, MinExp))

\* The zero of every row of decimal digits of Unicode 14 (the digits of
\* Python 3.11), by code point: U+0030 for the ASCII digits, U+0660 for
\* the Arabic-Indic ones, and so on to U+1FBF0.
DigitZeros ==
    {48, 1632, 1776, 1984, 2406, 2534, 2662, 2790, 2918, 3046, 3174, 3302,
     3430, 3558, 3664, 3792, 3872, 4160, 4240, 6112, 6160, 6470, 6608,
     6784, 6800, 6992, 7088, 7232, 7248, 42528, 43216, 43264, 43472, 43504,
     43600, 44016, 65296, 66720, 68912, 69734, 69872, 69942, 70096, 70384,
     70736, 70864, 71248, 71360, 71472, 71904, 72016, 72784, 73040, 73120,
     92768, 92864, 93008, 120782, 120792, 120802, 120812, 120822, 123200,
     123632, 125264, 130032}

\* The decimal digits float() and int() read: the characters of the Unicode
\* category Nd, ten from each zero.
DecimalDigits == UNION {z..(z + 9) : z \in DigitZeros}

\* The value of a decimal digit.
DigitVal ==
    [c \in DecimalDigits |-> c - CHOOSE z \in DigitZeros : c \in z..(z + 9)]

IsDigit(c) == c \in DecimalDigits

\* The whole number the digits lo..hi of ds write, by halves.
RECURSIVE DigitsRange(_, _, _)
DigitsRange(ds, lo, hi) ==
    IF lo > hi THEN <<>>
    ELSE IF lo = hi THEN NatOf(DigitVal[ds[lo]])
    ELSE The({BigAdd(TimesPow10(high, hi - (lo + hi) \div 2), low) :
              high \in {DigitsRange(ds, lo, (lo + hi) \div 2)},
              low \in {DigitsRange(ds, (lo + hi) \div 2 + 1, hi)}})

\* The whole number the digits ds write.
BigOfDigits(ds) == DigitsRange(ds, 1, Len(ds))

\* The double nearest to (-1)^neg * a / 10^k, for a > 0 and k > 0: a is given
\* n more bits, enough for the quotient to have 56 or more.
DoubleBelow(neg, a, k, n) ==
    The({Round(neg, d.q, d.rest, -n) :
         d \in {DivPow10(ShiftLeft(a, n), k, FALSE)}})

\* The double nearest to (-1)^neg * ds * 10^e, ds being digits that do not
\* begin with a zero.  A number of more than 309 digits before the point is
\* past every double; one that begins 324 places or more behind the point is
\* below half the smallest double.
DoubleOf(neg, ds, e) ==
    IF ds = <<>> THEN Zero(neg)
    ELSE IF Len(ds) + e > 309 THEN Inf(neg)
    ELSE IF Len(ds) + e < -324 THEN Zero(neg)
    ELSE IF e >= 0
    THEN Round(neg, TimesPow10(BigOfDigits(ds), e), FALSE, 0)
    ELSE The({DoubleBelow(neg, a, -e, Max(0, 56 + 4 * (-e) - BitLen(a))) :
              a \in {BigOfDigits(ds)}})

\* The double nearest to (-1)^neg * m * 10^e for a small whole number m >= 0.
FloatOf(neg, m, e) == DoubleOf(neg, DigitsOf(m), e)

\* -1, 0 or 1 as |a| < |b|, |a| = |b| or |a| > |b|, for finite a and b.
MagCmp(a, b) ==
    IF a.m = <<>> \/ b.m = <<>>
    THEN (IF a.m = b.m THEN 0 ELSE IF a.m = <<>> THEN -1 ELSE 1)
    ELSE IF BitLen(a.m) + a.e # BitLen(b.m) + b.e
    THEN (IF BitLen(a.m) + a.e < BitLen(b.m) + b.e THEN -1 ELSE 1)
    ELSE BigCmp(ShiftLeft(a.m, a.e - Min(a.e, b.e)),
                ShiftLeft(b.m, b.e - Min(a.e, b.e)))

\* |a| < |b| for finite a and b.
MagLt(a, b) == MagCmp(a, b) < 0

\* a < b on floats: false whenever a or b is nan; -0.0 and 0.0 are equal.
FloatLt(a, b) ==
    IF a.k = "nan" \/ b.k = "nan" THEN FALSE
    ELSE IF a.k = "inf" THEN a.neg /\ ~(b.k = "inf" /\ b.neg)
    ELSE IF b.k = "inf" THEN ~b.neg
    ELSE IF a.neg /\ ~b.neg THEN a.m # <<>> \/ b.m # <<>>
    ELSE IF ~a.neg /\ b.neg THEN FALSE
    ELSE IF a.neg THEN MagLt(b, a)
    ELSE MagLt(a, b)

\* a == b on floats.
FloatEq(a, b) ==
    /\ a.k # "nan" /\ b.k # "nan"
    /\ ~FloatLt(a, b) /\ ~FloatLt(b, a)

\* The whole number |a| is in units of 2^e (e <= a.e), for finite a.
Scaled(a, e) == ShiftLeft(a.m, a.e - e)

\* a + b on finite floats: the exact sum, rounded once.  Equal numbers of
\* opposite sign give +0.0; a zero is negative only as the sum of two negative
\* zeros.
FiniteAdd(a, b) ==
    IF a.neg = b.neg
    THEN Round(a.neg,
               BigAdd(Scaled(a, Min(a.e, b.e)), Scaled(b, Min(a.e, b.e))),
               FALSE, Min(a.e, b.e))
    ELSE IF MagCmp(a, b) = 0 THEN Zero(FALSE)
    ELSE IF MagCmp(a, b) > 0
    THEN Round(a.neg,
               BigSub(Scaled(a, Min(a.e, b.e)), Scaled(b, Min(a.e, b.e))),
               FALSE, Min(a.e, b.e))
    ELSE Round(b.neg,
               BigSub(Scaled(b, Min(a.e, b.e)), Scaled(a, Min(a.e, b.e))),
               FALSE, Min(a.e, b.e))

\* a + b on floats.
FloatAdd(a, b) ==
    IF a.k = "nan" \/ b.k = "nan" THEN NaN
    ELSE IF a.k = "inf" /\ b.k = "inf"
    THEN IF a.neg = b.neg THEN a ELSE NaN
    ELSE IF a.k = "inf" THEN a
    ELSE IF b.k = "inf" THEN b
    ELSE IF a.m = <<>> THEN (IF b.m = <<>> THEN Zero(a.neg /\ b.neg) ELSE b)
    ELSE IF b.m = <<>> THEN a
    ELSE FiniteAdd(a, b)

\* ------------------------------------------------------------------------
\* float(x), int(x), bool(x), dict.get
\* ------------------------------------------------------------------------

AllDigits(s) == \A i \in 1..Len(s) : IsDigit(s[i])

\* The characters float() and int() take for blanks: tab, line feed,
\* vertical tab, form feed, carriage return (U+0009 to U+000D), space, and
\* the blanks beyond ASCII: next line (U+0085), no-break space (U+00A0),
\* ogham space mark (U+1680), en quad to hair space (U+2000 to U+200A), line
\* and paragraph separator (U+2028, U+2029), narrow no-break space (U+202F),
\* medium mathematical space (U+205F), ideographic space (U+3000).  The
\* separators U+001C to U+001F are not among them.
Whitespace ==
    (9..13) \cup {32, 133, 160, 5760} \cup (8192..8202)
    \cup {8232, 8233, 8239, 8287, 12288}

\* The blanks taken off both ends of s, as float() and int() do first.
Strip(s) ==
    IF \A i \in 1..Len(s) : s[i] \in Whitespace THEN <<>>
    ELSE SubSeq(s,
                CHOOSE i \in 1..Len(s) :
                    s[i] \notin Whitespace
                    /\ \A j \in 1..(i - 1) : s[j] \in Whitespace,
                CHOOSE i \in 1..Len(s) :
                    s[i] \notin Whitespace
                    /\ \A j \in (i + 1)..Len(s) : s[j] \in Whitespace)

HasSign(s) == s # <<>> /\ Head(s) \in {Ord["+"], Ord["-"]}
Unsigned(s) == IF HasSign(s) THEN Tail(s) ELSE s
Negative(s) == HasSign(s) /\ Head(s) = Ord["-"]
Signed(s, n) == IF Negative(s) THEN -n ELSE n

\* The index of the first character of s that is in cs, or 0.
FirstAt(s, cs) ==
    IF \E i \in 1..Len(s) : s[i] \in cs
    THEN CHOOSE i \in 1..Len(s) :
             s[i] \in cs /\ \A j \in 1..(i - 1) : s[j] \notin cs
    ELSE 0

PointAt(s) == FirstAt(s, {Ord["."]})

\* digit (["_"] digit)*: digits, single underscores between them allowed.
DigitPart(s) ==
    /\ s # <<>>
    /\ \A i \in 1..Len(s) : IsDigit(s[i]) \/ s[i] = Ord["_"]
    /\ IsDigit(s[1]) /\ IsDigit(s[Len(s)])
    /\ \A i \in 1..(Len(s) - 1) : ~(s[i] = Ord["_"] /\ s[i + 1] = Ord["_"])

OnlyDigits(s) == SelectSeq(s, IsDigit)

IsZeroDigit(c) == IsDigit(c) /\ DigitVal[c] = 0

\* The digits d without the zeros they begin with.
NoLeadingZeros(d) ==
    IF \A i \in 1..Len(d) : IsZeroDigit(d[i]) THEN <<>>
    ELSE SubSeq(d, CHOOSE i \in 1..Len(d) :
                       ~IsZeroDigit(d[i])
                       /\ \A j \in 1..(i - 1) : IsZeroDigit(d[j]),
                Len(d))

\* The ASCII capitals as small letters, the other characters as they are.
Lower(s) ==
    [i \in 1..Len(s) |-> IF s[i] \in Ord["A"]..Ord["Z"]
                         THEN s[i] + (Ord["a"] - Ord["A"])
                         ELSE s[i]]

InfText == Text(<<"i", "n", "f">>)
InfinityText == Text(<<"i", "n", "f", "i", "n", "i", "t", "y">>)
NanText == Text(<<"n", "a", "n">>)

\* The exponent the digits d write, with the sign of the text st: beyond six
\* digits it is past every float.
ExponentValue(st, d) ==
    IF Len(NoLeadingZeros(d)) > 6 THEN Signed(st, 1000000)
    ELSE Signed(st, SmallOf(BigOfDigits(NoLeadingZeros(d))))

\* float(str) on the text s without blanks and sign:
\* "inf" | "infinity" | "nan" in any case, or
\* (digitpart ["." [digitpart]] | "." digitpart) [("e" | "E") [sign] digitpart].
ParseUnsignedFloat(neg, s) ==
    LET ea   == FirstAt(s, {Ord["e"], Ord["E"]})
        mant == IF ea = 0 THEN s ELSE SubSeq(s, 1, ea - 1)
        expo == IF ea = 0 THEN <<>> ELSE SubSeq(s, ea + 1, Len(s))
        p    == PointAt(mant)
        ip   == IF p = 0 THEN mant ELSE SubSeq(mant, 1, p - 1)
        fp   == IF p = 0 THEN <<>> ELSE SubSeq(mant, p + 1, Len(mant))
        ex   == IF ea = 0 THEN 0 ELSE ExponentValue(expo, OnlyDigits(expo))
    IN  IF Lower(s) \in {InfText, InfinityText} THEN Ok(Inf(neg))
        ELSE IF Lower(s) = NanText THEN Ok(NaN)
        ELSE IF /\ ip = <<>> \/ DigitPart(ip)
                /\ fp = <<>> \/ DigitPart(fp)
                /\ ip # <<>> \/ fp # <<>>
                /\ ea = 0 \/ DigitPart(Unsigned(expo))
        THEN Ok(DoubleOf(neg, NoLeadingZeros(OnlyDigits(ip) \o OnlyDigits(fp)),
                         ex - Len(OnlyDigits(fp))))
        ELSE Raise("ValueError")

\* float(str): blanks stripped, one sign allowed.
ParseFloat(s) == ParseUnsignedFloat(Negative(Strip(s)), Unsigned(Strip(s)))

\* int(str) refuses a text of more digits than this.
MaxStrDigits == 4300

\* int(str): [sign] digitpart, blanks stripped; a decimal point, an exponent
\* or a word is an error.
ParseInt(s) ==
    LET body == Unsigned(Strip(s))
    IN  IF DigitPart(body) /\ Len(OnlyDigits(body)) <= MaxStrDigits
        THEN Ok(BigInt(Negative(Strip(s)),
                       BigOfDigits(OnlyDigits(body))))
        ELSE Raise("ValueError")

\* ds * 10^e truncated toward zero to a whole number, as int(Decimal) does.
Trunc(ds, e) ==
    IF e >= 0 THEN TimesPow10(BigOfDigits(ds), e)
    ELSE IF -e >= Len(ds) THEN <<>>
    ELSE BigOfDigits(SubSeq(ds, 1, Len(ds) + e))

\* float(int): an int past the doubles is an error.
FloatOfInt(v) ==
    IF Round(v.neg, v.m, FALSE, 0).k = "inf" THEN Raise("OverflowError")
    ELSE Ok(Round(v.neg, v.m, FALSE, 0))

\* float(v)
PyFloat(v) ==
    CASE v.t = "num"   -> Ok(DoubleOf(v.neg, v.ds, v.e))
      [] v.t = "float" -> Ok(v)
      [] v.t = "int"   -> FloatOfInt(v)
      [] v.t = "bool"  -> Ok(FloatOf(FALSE, IF v.b THEN 1 ELSE 0, 0))
      [] v.t = "str"   -> ParseFloat(v.s)
      [] OTHER         -> Raise("TypeError")

\* int(v)
PyInt(v) ==
    CASE v.t = "num"   -> Ok(BigInt(v.neg, Trunc(v.ds, v.e)))
      [] v.t = "float" ->
            IF v.k = "inf" THEN Raise("OverflowError")
            ELSE IF v.k = "nan" THEN Raise("ValueError")
            ELSE IF v.e >= 0 THEN Ok(BigInt(v.neg, ShiftLeft(v.m, v.e)))
            ELSE Ok(BigInt(v.neg, ShiftRight(v.m, -v.e)))
      [] v.t = "int"   -> Ok(v)
      [] v.t = "bool"  -> Ok(IntV(IF v.b THEN 1 ELSE 0))
      [] v.t = "str"   -> ParseInt(v.s)
      [] OTHER         -> Raise("TypeError")

\* bool(v), as the conditional expressions of format_repo_data test it.
Truthy(v) ==
    CASE v.t = "num"   -> v.ds # <<>>
      [] v.t = "float" -> v.k # "fin" \/ v.m # <<>>
      [] v.t = "int"   -> v.m # <<>>
      [] v.t = "bool"  -> v.b
      [] v.t = "str"   -> v.s # <<>>
      [] v.t = "map"   -> DOMAIN v.m # {}
      [] OTHER         -> FALSE

\* d.get(k, dflt) on a dict d.
Get(d, k, dflt) == IF k \in DOMAIN d THEN d[k] ELSE dflt

\* obj.get(k, dflt) on any value: only a dict has the method.
GetAttr(obj, k, dflt) ==
    IF obj.t = "map" THEN Ok(Get(obj.m, k, dflt)) ELSE Raise("AttributeError")

\* The first exception of rs, a sequence of outcomes in evaluation order.
FirstRaise(rs) ==
    LET i == CHOOSE i \in 1..Len(rs) :
                 ~rs[i].ok /\ \A j \in 1..(i - 1) : rs[j].ok
    IN  rs[i]

\* ------------------------------------------------------------------------
\* format_repo_data
\* ------------------------------------------------------------------------

UnknownText == Text(<<"U", "n", "k", "n", "o", "w", "n">>)
NoDescriptionText ==
    Text(<<"N", "o", " ", "d", "e", "s", "c", "r", "i", "p", "t", "i", "o",
           "n", " ", "a", "v", "a", "i", "l", "a", "b", "l", "e">>)
NotAnalyzedText ==
    Text(<<"N", "o", "t", " ", "a", "n", "a", "l", "y", "z", "e", "d">>)

\* float(obj.get(k, 0)) and int(obj.get(k, 0)) on a nested object.
FloatField(obj, k) ==
    LET got == GetAttr(obj, k, IntV(0))
    IN  IF got.ok THEN PyFloat(got.v) ELSE got

IntField(obj, k) ==
    LET got == GetAttr(obj, k, IntV(0))
    IN  IF got.ok THEN PyInt(got.v) ELSE got

\* int(obj.get(k, 0)) if obj.get(k) else None
OptionalScore(obj, k) ==
    LET test == GetAttr(obj, k, None)
    IN  IF ~test.ok THEN test
        ELSE IF Truthy(test.v) THEN IntField(obj, k)
        ELSE Ok(None)

\* The body of the loop of format_repo_data for one item: the outcome of
\* building repo_data, its entries evaluated in the order they are written.
FormatItem(item) ==
    LET oss_data           == Get(item, "oss_insight_data", DictV(EmptyDict))
        repo_analysis      == Get(item, "repo_analysis", DictV(EmptyDict))
        community_analysis == Get(item, "community_analysis", DictV(EmptyDict))
        repo_name     == Ok(Get(item, "repo_name", StrV(UnknownText)))
        final_score   == PyFloat(Get(item, "final_score", IntV(0)))
        analysis_date == Ok(Get(item, "analysis_date", StrV(UnknownText)))
        stars         == IntField(oss_data, "stars")
        total_score   == FloatField(oss_data, "total_score")
        description   == GetAttr(oss_data, "description", StrV(NoDescriptionText))
        clarity       == OptionalScore(repo_analysis, "problem_clarity_score")
        ease          == OptionalScore(repo_analysis, "adoption_ease_score")
        maturity      == OptionalScore(repo_analysis, "maturity_health_score")
        problem       == GetAttr(repo_analysis, "problem_solved", StrV(NotAnalyzedText))
        excitement    == OptionalScore(community_analysis, "excitement_score")
        fit           == OptionalScore(community_analysis, "problem_solution_fit_score")
        credibility   == OptionalScore(community_analysis, "credibility_adoption_score")
        praise        == GetAttr(community_analysis, "key_praise_quote", StrV(<<>>))
        criticism     == GetAttr(community_analysis, "main_criticism", StrV(<<>>))
        order == <<repo_name, final_score, analysis_date, stars, total_score,
                   description, clarity, ease, maturity, problem, excitement,
                   fit, credibility, praise, criticism>>
    IN  IF \E i \in 1..Len(order) : ~order[i].ok
        THEN FirstRaise(order)
        ELSE Ok([repo_name                  |-> repo_name.v,
                 final_score                |-> final_score.v,
                 analysis_date              |-> analysis_date.v,
                 stars                      |-> stars.v,
                 total_score                |-> total_score.v,
                 description                |-> description.v,
                 problem_clarity_score      |-> clarity.v,
                 adoption_ease_score        |-> ease.v,
                 maturity_health_score      |-> maturity.v,
                 problem_solved             |-> problem.v,
                 excitement_score           |-> excitement.v,
                 problem_solution_fit_score |-> fit.v,
                 credibility_adoption_score |-> credibility.v,
                 key_praise_quote           |-> praise.v,
                 main_criticism             |-> criticism.v])

\* format_repo_data(items): the list of the formatted items, or the exception
\* of the first item that raises (nothing catches it inside the function).
format_repo_data(items) ==
    CHOOSE result \in
        {IF \E i \in 1..Len(items) : ~each[i].ok
         THEN [ok |-> FALSE, v |-> <<>>, exc |-> FirstRaise(each).exc]
         ELSE [ok |-> TRUE, v |-> [i \in 1..Len(items) |-> each[i].v],
               exc |-> "none"] :
            each \in {[i \in 1..Len(items) |-> FormatItem(items[i])]}} : TRUE

\* ------------------------------------------------------------------------
\* load_dynamodb_data: the session, the scan, the sort, the slice, the
\* except clause
\* ------------------------------------------------------------------------

\* @st.cache_data(ttl=300)
TTL == 300

\* st.sidebar.slider("Number of repositories to display", 5, 50, 20)
SliderMin == 5
SliderMax == 50
SliderDefault == 20

\* The table and the way to it are in order.
storeUp == failure = "none"

\* boto3.Session(profile_name='root'), session.resource('dynamodb') and
\* dynamodb.Table(...): no request is made yet; a missing profile or an
\* unusable configuration (failure = "connect") raises here.
Connect ==
    IF failure = "connect" THEN Raise("ClientError") ELSE Ok(None)

\* table.scan(): one request.  The table answers with one page, its first
\* pageSize items in scan order (DynamoDB ends a page at 1 MB), and with a
\* LastEvaluatedKey when items are left.  A failing request raises.
Scan ==
    IF failure # "scan"
    THEN [ok |-> TRUE,
          Items |-> SubSeq(store, 1, Min(Len(store), pageSize)),
          LastEvaluatedKey |-> Len(store) > pageSize,
          exc |-> "none"]
    ELSE [ok |-> FALSE, Items |-> <<>>, LastEvaluatedKey |-> FALSE,
          exc |-> "ClientError"]

\* key=lambda x: float(x.get('final_score', 0))
SortKey(x) == PyFloat(Get(x, "final_score", IntV(0)))

\* The sort works on the keys, each computed once and kept with its item.
Keyed(k, x) == [key |-> k, item |-> x]

\* key(x) < key(y), the one comparison the sort makes.
KeyLt(x, y) == FloatLt(x.key, y.key)

Reverse(s) == [i \in 1..Len(s) |-> s[Len(s) + 1 - i]]

\* CPython's list.sort (Objects/listobject.c of Python 3.11): the list is
\* walked once from the left; each run found (count_run) is turned round
\* when it descends and, when shorter than minrun, filled up by bisection
\* (binarysort); the runs wait on a stack and are merged (merge_at) by the
\* order of their powers and, at the end, all of them.

\* Whether the list begins with a strictly descending run.
RunDescends(s) == Len(s) >= 2 /\ KeyLt(s[2], s[1])

\* count_run: the length of the run the list begins with.
RunLength(s) ==
    IF Len(s) <= 1 THEN Len(s)
    ELSE CHOOSE n \in 2..Len(s) :
             /\ \A i \in 3..n : KeyLt(s[i], s[i - 1]) <=> RunDescends(s)
             /\ n < Len(s) => ~(KeyLt(s[n + 1], s[n]) <=> RunDescends(s))

\* The place, counted from 0, where pivot goes among s[l+1..r], pivot behind
\* its equals.
RECURSIVE Bisect(_, _, _, _)
Bisect(s, pivot, l, r) ==
    IF l >= r THEN l
    ELSE IF KeyLt(pivot, s[l + (r - l) \div 2 + 1])
    THEN Bisect(s, pivot, l, l + (r - l) \div 2)
    ELSE Bisect(s, pivot, l + (r - l) \div 2 + 1, r)

\* pivot put into the sorted list s.
InsertSorted(s, pivot) ==
    The({SubSeq(s, 1, l) \o <<pivot>> \o SubSeq(s, l + 1, Len(s)) :
         l \in {Bisect(s, pivot, 0, Len(s))}})

\* The items lo..hi of s put one by one, in their order, into the sorted
\* list front; a stretch is done in two halves.
RECURSIVE InsertRange(_, _, _, _)
InsertRange(s, lo, hi, front) ==
    IF lo > hi THEN front
    ELSE IF lo = hi THEN InsertSorted(front, s[lo])
    ELSE The({InsertRange(s, (lo + hi) \div 2 + 1, hi, low) :
              low \in {InsertRange(s, lo, (lo + hi) \div 2, front)}})

\* binarysort: s sorted, s beginning with a run of n items: the run as it
\* is, or turned round when it descends, and the items behind it put in one
\* by one.
BinarySort(s, n) ==
    InsertRange(s, n + 1, Len(s),
                IF RunDescends(s) THEN Reverse(SubSeq(s, 1, n))
                ELSE SubSeq(s, 1, n))

\* merge_compute_minrun: n below 64; else the six highest bits of n, and one
\* more when a bit under them is set (r).
RECURSIVE MinRunFrom(_, _)
MinRunFrom(n, r) ==
    IF n >= 64 THEN MinRunFrom(n \div 2, IF n % 2 = 1 THEN 1 ELSE r)
    ELSE n + r

merge_compute_minrun(n) == MinRunFrom(n, 0)

\* A merge gallops once a run has won this many times in a row.
MIN_GALLOP == 7

\* Whether s[x] goes before key: left of its equals (gallop_left, s[x] < key)
\* or right of them (gallop_right, not key < s[x]).
Before(s, key, right, x) ==
    IF right THEN ~KeyLt(key, s[x]) ELSE KeyLt(s[x], key)

\* The galloping loop from s[hint + 1], upward while the items go before key
\* or downward while they do not: the last two offsets, the second cut at
\* maxofs.
RECURSIVE GallopOfs(_, _, _, _, _, _, _, _)
GallopOfs(s, key, right, hint, up, lastofs, ofs, maxofs) ==
    IF /\ ofs < maxofs
       /\ Before(s, key, right,
                 hint + 1 + (IF up THEN ofs ELSE -ofs)) = up
    THEN GallopOfs(s, key, right, hint, up, ofs, 2 * ofs + 1, maxofs)
    ELSE <<lastofs, Min(ofs, maxofs)>>

\* The bisection that ends a gallop: the number of items before key, known
\* to lie in lastofs..ofs.
RECURSIVE GallopSearch(_, _, _, _, _)
GallopSearch(s, key, right, lastofs, ofs) ==
    IF lastofs >= ofs THEN ofs
    ELSE IF Before(s, key, right, lastofs + (ofs - lastofs) \div 2 + 1)
    THEN GallopSearch(s, key, right,
                      lastofs + (ofs - lastofs) \div 2 + 1, ofs)
    ELSE GallopSearch(s, key, right, lastofs,
                      lastofs + (ofs - lastofs) \div 2)

\* The number of items of the run s that go before key, looked for from
\* s[hint + 1] in steps of 1, 3, 7, ... and then by bisection.
Gallop(s, key, hint, right) ==
    The({The({IF up
              THEN GallopSearch(s, key, right, g[1] + hint + 1, g[2] + hint)
              ELSE GallopSearch(s, key, right, hint - g[2] + 1, hint - g[1]) :
              g \in {GallopOfs(s, key, right, hint, up, 0, 1,
                               IF up THEN Len(s) - hint ELSE hint + 1)}}) :
         up \in {Before(s, key, right, hint + 1)}})

gallop_left(key, s, hint) == Gallop(s, key, hint, FALSE)

gallop_right(key, s, hint) == Gallop(s, key, hint, TRUE)

\* A merge under way: out is what is merged, na and nb the items of the runs
\* a and b not yet merged, min_gallop the threshold of this merge and stored
\* the one kept for the next (ms->min_gallop), acount and bcount the wins in
\* a row, exit the label the merge ends at.
Merging(out, na, nb, min_gallop) ==
    [out |-> out, na |-> na, nb |-> nb, min_gallop |-> min_gallop,
     stored |-> min_gallop, galloping |-> FALSE, acount |-> 0, bcount |-> 0,
     exit |-> "none"]

\* The end of one pass of the galloping loop: it goes on while a run won
\* MIN_GALLOP times or more; else one item at a time again, galloping made
\* harder to enter.
GallopAgain(st) ==
    IF st.exit # "none" \/ st.acount >= MIN_GALLOP \/ st.bcount >= MIN_GALLOP
    THEN st
    ELSE [st EXCEPT !.galloping = FALSE, !.min_gallop = @ + 1,
                    !.stored = st.min_gallop + 1,
                    !.acount = 0, !.bcount = 0]

\* The start of one pass of the galloping loop: galloping is made easier to
\* enter.
GallopEased(st) ==
    [st EXCEPT !.min_gallop = IF @ > 1 THEN @ - 1 ELSE @,
               !.stored = IF st.min_gallop > 1 THEN st.min_gallop - 1
                          ELSE st.min_gallop]

\* A run has won min_gallop times in a row: the merge gallops.
GallopWhenWinning(st, count) ==
    IF st.exit = "none" /\ count >= st.min_gallop
    THEN [st EXCEPT !.galloping = TRUE, !.min_gallop = @ + 1]
    ELSE st

\* The merge st after items were taken from a run of which left are left:
\* it ends at the label copy when one is left, and at Succeed when none is.
AtEnd(st, left, copy) ==
    IF left = 1 /\ copy # "none" THEN [st EXCEPT !.exit = copy]
    ELSE IF left = 0 THEN [st EXCEPT !.exit = "Succeed"]
    ELSE st

\* merge_lo, the runs merged from the left.  k items of a, or of b, go to
\* the merged list; the merge ends when b is used up (Succeed), or when one
\* item of a is left, which is the last of all (CopyB).
LoFromA(a, st, k) ==
    IF k = 0 THEN st
    ELSE AtEnd([st EXCEPT !.out = @ \o SubSeq(a, Len(a) - st.na + 1,
                                               Len(a) - st.na + k),
                          !.na = @ - k],
               st.na - k, "CopyB")

LoFromB(b, st, k) ==
    IF k = 0 THEN st
    ELSE AtEnd([st EXCEPT !.out = @ \o SubSeq(b, Len(b) - st.nb + 1,
                                               Len(b) - st.nb + k),
                          !.nb = @ - k],
               st.nb - k, "none")

\* One comparison of the heads of the runs, the smaller one taken, a on a
\* tie.
LoPairStep(a, b, st) ==
    IF KeyLt(b[Len(b) - st.nb + 1], a[Len(a) - st.na + 1])
    THEN GallopWhenWinning(
             LoFromB(b, [st EXCEPT !.bcount = @ + 1, !.acount = 0], 1),
             st.bcount + 1)
    ELSE GallopWhenWinning(
             LoFromA(a, [st EXCEPT !.acount = @ + 1, !.bcount = 0], 1),
             st.acount + 1)

\* One pass of the galloping loop, in four parts: the items of a that go
\* before the head of b; that head; the items of b that go before the head
\* of a; that head.
LoGallopA(a, b, st) ==
    The({LoFromA(a, [st EXCEPT !.acount = k], k) :
         k \in {gallop_right(b[Len(b) - st.nb + 1],
                             SubSeq(a, Len(a) - st.na + 1, Len(a)), 0)}})

LoGallopHeadB(b, st) == IF st.exit # "none" THEN st ELSE LoFromB(b, st, 1)

LoGallopB(a, b, st) ==
    IF st.exit # "none" THEN st
    ELSE The({LoFromB(b, [st EXCEPT !.bcount = k], k) :
              k \in {gallop_left(a[Len(a) - st.na + 1],
                                 SubSeq(b, Len(b) - st.nb + 1, Len(b)), 0)}})

LoGallopHeadA(a, st) == IF st.exit # "none" THEN st ELSE LoFromA(a, st, 1)

LoGallopStep(a, b, st) ==
    GallopAgain(
        LoGallopHeadA(a,
            LoGallopB(a, b,
                LoGallopHeadB(b, LoGallopA(a, b, GallopEased(st))))))

LoStep(a, b, st) ==
    IF st.galloping THEN LoGallopStep(a, b, st) ELSE LoPairStep(a, b, st)

\* k steps of the merge from st on, or as many as it takes to its end; a
\* stretch of steps is done in two halves.
RECURSIVE LoSteps(_, _, _, _)
LoSteps(a, b, st, k) ==
    IF st.exit # "none" \/ k = 0 THEN st
    ELSE IF k = 1 THEN LoStep(a, b, st)
    ELSE The({LoSteps(a, b, half, k - k \div 2) :
              half \in {LoSteps(a, b, st, k \div 2)}})

\* merge_lo: the merged list and the threshold kept for the next merge.  The
\* head of b goes first; at the end the rest of a stands before the rest of
\* b, or behind it at CopyB.
merge_lo(a, b, min_gallop) ==
    The({[items |->
              IF last.exit = "CopyB"
              THEN last.out \o SubSeq(b, Len(b) - last.nb + 1, Len(b))
                            \o SubSeq(a, Len(a) - last.na + 1, Len(a))
              ELSE last.out \o SubSeq(a, Len(a) - last.na + 1, Len(a))
                            \o SubSeq(b, Len(b) - last.nb + 1, Len(b)),
          min_gallop |-> last.stored] :
         last \in {LoSteps(a, b,
                           AtEnd(Merging(<<b[1]>>, Len(a), Len(b) - 1,
                                         min_gallop),
                                 IF Len(b) = 1 THEN 0 ELSE Len(a), "CopyB"),
                           Len(a) + Len(b))}})

\* merge_hi, the runs merged from the right.  k items of a, or of b, go to
\* the front of the merged list; the merge ends when a is used up (Succeed),
\* or when one item of b is left, which is the first of all (CopyA).
HiFromA(a, st, k) ==
    IF k = 0 THEN st
    ELSE AtEnd([st EXCEPT !.out = SubSeq(a, st.na - k + 1, st.na) \o @,
                          !.na = @ - k],
               st.na - k, "none")

HiFromB(b, st, k) ==
    IF k = 0 THEN st
    ELSE AtEnd([st EXCEPT !.out = SubSeq(b, st.nb - k + 1, st.nb) \o @,
                          !.nb = @ - k],
               st.nb - k, "CopyA")

\* One comparison of the tails of the runs, the greater one taken, b on a
\* tie.
HiPairStep(a, b, st) ==
    IF KeyLt(b[st.nb], a[st.na])
    THEN GallopWhenWinning(
             HiFromA(a, [st EXCEPT !.acount = @ + 1, !.bcount = 0], 1),
             st.acount + 1)
    ELSE GallopWhenWinning(
             HiFromB(b, [st EXCEPT !.bcount = @ + 1, !.acount = 0], 1),
             st.bcount + 1)

\* One pass of the galloping loop, in four parts: the items of a that go
\* behind the tail of b; that tail; the items of b that go behind the tail
\* of a; that tail.
HiGallopA(a, b, st) ==
    The({HiFromA(a, [st EXCEPT !.acount = k], k) :
         k \in {st.na - gallop_right(b[st.nb], SubSeq(a, 1, st.na),
                                     st.na - 1)}})

HiGallopTailB(b, st) == IF st.exit # "none" THEN st ELSE HiFromB(b, st, 1)

HiGallopB(a, b, st) ==
    IF st.exit # "none" THEN st
    ELSE The({HiFromB(b, [st EXCEPT !.bcount = k], k) :
              k \in {st.nb - gallop_left(a[st.na], SubSeq(b, 1, st.nb),
                                         st.nb - 1)}})

HiGallopTailA(a, st) == IF st.exit # "none" THEN st ELSE HiFromA(a, st, 1)

HiGallopStep(a, b, st) ==
    GallopAgain(
        HiGallopTailA(a,
            HiGallopB(a, b,
                HiGallopTailB(b, HiGallopA(a, b, GallopEased(st))))))

HiStep(a, b, st) ==
    IF st.galloping THEN HiGallopStep(a, b, st) ELSE HiPairStep(a, b, st)

RECURSIVE HiSteps(_, _, _, _)
HiSteps(a, b, st, k) ==
    IF st.exit # "none" \/ k = 0 THEN st
    ELSE IF k = 1 THEN HiStep(a, b, st)
    ELSE The({HiSteps(a, b, half, k - k \div 2) :
              half \in {HiSteps(a, b, st, k \div 2)}})

\* merge_hi: the merged list and the threshold kept for the next merge.  The
\* tail of a goes last; at the end the rest of a stands before the rest of
\* b, or behind it at CopyA.
merge_hi(a, b, min_gallop) ==
    The({[items |->
              IF last.exit = "CopyA"
              THEN SubSeq(b, 1, last.nb) \o SubSeq(a, 1, last.na)
                                         \o last.out
              ELSE SubSeq(a, 1, last.na) \o SubSeq(b, 1, last.nb)
                                         \o last.out,
          min_gallop |-> last.stored] :
         last \in {HiSteps(a, b,
                           AtEnd(Merging(<<a[Len(a)]>>, Len(a) - 1, Len(b),
                                         min_gallop),
                                 IF Len(a) = 1 THEN 0 ELSE Len(b), "CopyA"),
                           Len(a) + Len(b))}})

\* Two neighbouring runs merged: the items of a that go before all of b
\* (the first k) and the items of b that go behind all of a (from nb on)
\* stay where they are; the rest is merged from the side of the shorter
\* run.
MergeRuns(a, b, min_gallop) ==
    The({IF k = Len(a) THEN [items |-> a \o b, min_gallop |-> min_gallop]
         ELSE The({IF nb = 0
                   THEN [items |-> a \o b, min_gallop |-> min_gallop]
                   ELSE The({[items |-> SubSeq(a, 1, k) \o m.items
                                            \o SubSeq(b, nb + 1, Len(b)),
                              min_gallop |-> m.min_gallop] :
                             m \in {IF Len(a) - k <= nb
                                    THEN merge_lo(SubSeq(a, k + 1, Len(a)),
                                                  SubSeq(b, 1, nb),
                                                  min_gallop)
                                    ELSE merge_hi(SubSeq(a, k + 1, Len(a)),
                                                  SubSeq(b, 1, nb),
                                                  min_gallop)}}) :
                   nb \in {gallop_left(a[Len(a)], b, Len(b) - 1)}}) :
         k \in {gallop_right(b[1], a, 0)}})

\* A run on the stack: where it begins in the list, counted from 0, its
\* items and its power.
Run(base, items, power) == [base |-> base, items |-> items, power |-> power]

\* The merge state: the stack of runs, the first found first, and the
\* galloping threshold.
MergeState(pending, min_gallop) ==
    [pending |-> pending, min_gallop |-> min_gallop]

\* merge_at: the runs i and i + 1 of the stack merged into one at i.
merge_at(ms, i) ==
    The({MergeState(SubSeq(ms.pending, 1, i - 1)
                        \o <<Run(ms.pending[i].base, m.items,
                                 ms.pending[i].power)>>
                        \o SubSeq(ms.pending, i + 2, Len(ms.pending)),
                    m.min_gallop) :
         m \in {MergeRuns(ms.pending[i].items, ms.pending[i + 1].items,
                          ms.min_gallop)}})

\* powerloop: the first binary place, counted from 1, at which the middle
\* of the run s1..s1+n1-1 and the middle of the run of n2 items behind it,
\* both taken as fractions of the list of n items, differ.
RECURSIVE PowerFrom(_, _, _, _)
PowerFrom(a, b, n, result) ==
    IF a >= n THEN PowerFrom(2 * (a - n), 2 * (b - n), n, result + 1)
    ELSE IF b >= n THEN result
    ELSE PowerFrom(2 * a, 2 * b, n, result + 1)

powerloop(s1, n1, n2, n) ==
    PowerFrom(2 * s1 + n1, 2 * s1 + n1 + n1 + n2, n, 1)

\* The two runs on top of the stack merged for as long as the one under the
\* top has a power above power.
RECURSIVE MergeAbove(_, _)
MergeAbove(ms, power) ==
    IF /\ Len(ms.pending) > 1
       /\ ms.pending[Len(ms.pending) - 1].power > power
    THEN MergeAbove(merge_at(ms, Len(ms.pending) - 1), power)
    ELSE ms

\* found_new_run: a run of n2 items is found behind the runs on the stack of
\* a list of n items; the run on top gets its power.
found_new_run(ms, n2, n) ==
    IF ms.pending = <<>> THEN ms
    ELSE The({The({[m EXCEPT !.pending[Len(m.pending)].power = power] :
                   m \in {MergeAbove(ms, power)}}) :
              power \in {powerloop(ms.pending[Len(ms.pending)].base,
                                   Len(ms.pending[Len(ms.pending)].items),
                                   n2, n)}})

\* merge_force_collapse: the runs merged until one is left, the run under
\* the top with the shorter of its neighbours.
RECURSIVE merge_force_collapse(_)
merge_force_collapse(ms) ==
    IF Len(ms.pending) <= 1 THEN ms
    ELSE IF /\ Len(ms.pending) > 2
            /\ Len(ms.pending[Len(ms.pending) - 2].items)
                   < Len(ms.pending[Len(ms.pending)].items)
    THEN merge_force_collapse(merge_at(ms, Len(ms.pending) - 2))
    ELSE merge_force_collapse(merge_at(ms, Len(ms.pending) - 1))

\* The sort under way: the merge state, the number lo of items that are in
\* runs and the items rest behind them.
Sorting(ms, lo, rest) == [ms |-> ms, lo |-> lo, rest |-> rest]

\* One pass of the loop of list.sort over a list of n items: the run rest
\* begins with, filled up to minrun items or to the end of the list, goes
\* on the stack.
NextRun(st, minrun, n) ==
    The({The({Sorting([found_new_run(st.ms, taken, n) EXCEPT !.pending =
                           Append(@, Run(st.lo,
                                         BinarySort(SubSeq(st.rest, 1, taken),
                                                    found), 0))],
                      st.lo + taken,
                      SubSeq(st.rest, taken + 1, Len(st.rest))) :
              taken \in {Max(found, Min(minrun, Len(st.rest)))}}) :
         found \in {RunLength(st.rest)}})

\* k passes of the loop from st on, or as many as it takes to the end of
\* the list; a stretch of passes is done in two halves.
RECURSIVE Runs(_, _, _, _)
Runs(st, minrun, n, k) ==
    IF st.rest = <<>> \/ k = 0 THEN st
    ELSE IF k = 1 THEN NextRun(st, minrun, n)
    ELSE The({Runs(half, minrun, n, k - k \div 2) :
              half \in {Runs(st, minrun, n, k \div 2)}})

\* list.sort in ascending order: a list of fewer than two items as it is.
ListSort(s) ==
    IF Len(s) < 2 THEN s
    ELSE merge_force_collapse(
             Runs(Sorting(MergeState(<<>>, MIN_GALLOP), 0, s),
                  merge_compute_minrun(Len(s)), Len(s), Len(s)).ms
         ).pending[1].items

\* sorted(..., reverse=True) on keyed items: the list is turned round, sorted
\* ascending, and turned round again, which keeps items of equal key in
\* their original order.
SortedDesc(keyed) == Reverse(ListSort(Reverse(keyed)))

\* s[:k]
SliceTo(s, k) ==
    IF k >= 0 THEN SubSeq(s, 1, Min(k, Len(s)))
    ELSE SubSeq(s, 1, IF Len(s) + k > 0 THEN Len(s) + k ELSE 0)

\* The items of a keyed list.
ItemsOf(keyed) == [i \in 1..Len(keyed) |-> keyed[i].item]

\* sorted(items, key=..., reverse=True): the key function is applied to every
\* item first, and the first item whose key raises ends the sort.
SortItems(items) ==
    CHOOSE r \in
        {IF \E i \in 1..Len(items) : ~keys[i].ok
         THEN [ok |-> FALSE, v |-> <<>>, exc |-> FirstRaise(keys).exc]
         ELSE [ok |-> TRUE,
               v |-> ItemsOf(SortedDesc([i \in 1..Len(items) |->
                                            Keyed(keys[i].v, items[i])])),
               exc |-> "none"] :
            keys \in {[i \in 1..Len(items) |-> SortKey(items[i])]}} : TRUE

\* The entry st.cache_data holds for the argument limit, if any.
NoEntry == [cached_at |-> -1, value |-> <<>>, caught |-> "none"]

Entry(limit) == IF limit \in DOMAIN cache THEN cache[limit] ELSE NoEntry

\* An except clause that hands back the value cached last.
ExceptClause_staleOnError(limit, exc, scans, items, more) ==
    [ret |-> Entry(limit).value, scans |-> scans, items |-> items,
     sorted |-> FALSE, caught |-> exc, more |-> more]

\* except Exception as e: st.error(...); return [].  The outcome of the body:
\* ret is what it returns, scans the number of table.scan() requests it made,
\* items what the sort was given, caught the exception turned into st.error.
ExceptClause(limit, exc, scans, items, more) ==
    [ret |-> <<>>, scans |-> scans, items |-> items, sorted |-> FALSE,
     caught |-> exc, more |-> more]

\* The body when the session or the resource cannot be made: the except
\* clause is reached without a request.
BodyUnconnected(limit) == ExceptClause(limit, Connect.exc, 0, <<>>, FALSE)

\* The body from the response of table.scan() on: items, the sort, the slice.
BodyAfterScan(limit, response) ==
    CHOOSE body \in
        {IF ~response.ok
         THEN ExceptClause(limit, response.exc, 1, <<>>, FALSE)
         ELSE IF ~sorted_items.ok
         THEN ExceptClause(limit, sorted_items.exc, 1, response.Items,
                           response.LastEvaluatedKey)
         ELSE [ret |-> SliceTo(sorted_items.v, limit), scans |-> 1,
               items |-> response.Items, sorted |-> TRUE, caught |-> "none",
               more |-> response.LastEvaluatedKey] :
            sorted_items \in {SortItems(response.Items)}} : TRUE

\* ------------------------------------------------------------------------
\* st.cache_data(ttl=300): one entry per argument value
\* ------------------------------------------------------------------------

\* An entry served up to and including the instant cached_at + ttl.
Fresh_inclusive(e, t) == e # NoEntry /\ t <= e.cached_at + TTL

\* An entry is served while the clock is before cached_at + ttl.
Fresh(e, t) == e # NoEntry /\ t < e.cached_at + TTL

\* What the decorator stores for a call that returned, at the instant t it
\* returned: the value, and the st.error element the call emitted, which a
\* later hit replays.
Stored(body, t) == [cached_at |-> t, value |-> body.ret, caught |-> body.caught]

\* The record of a call served from the entry found at the instant at.
CallHit(limit, at, found) ==
    [limit |-> limit, at |-> at, hit |-> TRUE, ran |-> FALSE,
     returned |-> TRUE, scans |-> 0, ret |-> found.value,
     notice |-> found.caught, caught |-> "none",
     items |-> <<>>, sorted |-> FALSE, more |-> FALSE,
     pre |-> found, post |-> found]

\* The record of a call that found no fresh entry at the instant at (pre is
\* what it found), ran the body and had its return value stored at t.
CallMiss(limit, at, found, body, t) ==
    [limit |-> limit, at |-> at, hit |-> FALSE, ran |-> TRUE,
     returned |-> TRUE, scans |-> body.scans, ret |-> body.ret,
     notice |-> body.caught,
     caught |-> body.caught, items |-> body.items, sorted |-> body.sorted,
     more |-> body.more, pre |-> found, post |-> Stored(body, t)]

\* The record of the call c when the script run is stopped before the body
\* returns: nothing is returned and nothing is stored.
NotReturned(c) ==
    [c EXCEPT !.returned = FALSE, !.ret = <<>>, !.post = c.pre]

\* The record of the call c when the script run is stopped where the
\* decorator ends, after the write: the value is stored and the caller does
\* not get it.
NotHandedOver(c) == [c EXCEPT !.returned = FALSE, !.ret = <<>>]

\* The cache after the write of the call c.
CacheAfter(c) == (c.limit :> c.post) @@ cache

\* No call of load_dynamodb_data has just ended.
NoCall == [limit |-> -1]

\* ------------------------------------------------------------------------
\* main: load, format, the "no data" guard, the overview cards, the
\* leaderboard
\* ------------------------------------------------------------------------

\* The double nearest to a / b for a finite a # 0 and 0 < b < Base: a is
\* given n more bits, enough for the quotient to have 55 or more.
Quotient(a, b, n) ==
    CHOOSE f \in {Round(a.neg, d.q, d.r # 0, a.e - n) :
                  d \in {BigDiv(ShiftLeft(a.m, n), b)}} : TRUE

\* a / b for a float a and the length b of a list: the quotient rounded to
\* the nearest double, an infinity or nan as the float division gives them,
\* or ZeroDivisionError.
Divide(a, b) ==
    IF b = 0 THEN Raise("ZeroDivisionError")
    ELSE IF a.k # "fin" \/ a.m = <<>> THEN Ok(a)
    ELSE Ok(Quotient(a, b, Max(0, 55 + Bits(b) - BitLen(a.m))))

\* sum(r[field] for r in repos) over a field of ints: 0 + r1 + r2 + ...
\* The items lo..hi are added to acc in their order, a stretch in two halves.
RECURSIVE SumRange(_, _, _, _, _)
SumRange(repos, field, lo, hi, acc) ==
    IF lo > hi THEN acc
    ELSE IF lo = hi THEN IntAdd(acc, repos[lo][field])
    ELSE The({SumRange(repos, field, (lo + hi) \div 2 + 1, hi, front) :
              front \in {SumRange(repos, field, lo, (lo + hi) \div 2, acc)}})

SumOf(repos, field) == SumRange(repos, field, 1, Len(repos), IntV(0))

\* sum(r[field] for r in repos) over a field of floats: 0 + r1 + r2 + ...,
\* each addition rounded, in the order of the list.
RECURSIVE FloatSumRange(_, _, _, _, _)
FloatSumRange(repos, field, lo, hi, acc) ==
    IF lo > hi THEN acc
    ELSE IF lo = hi THEN FloatAdd(acc, repos[lo][field])
    ELSE The({FloatSumRange(repos, field, (lo + hi) \div 2 + 1, hi, front) :
              front \in {FloatSumRange(repos, field, lo, (lo + hi) \div 2,
                                       acc)}})

FloatSumOf(repos, field) ==
    FloatSumRange(repos, field, 1, Len(repos), Zero(FALSE))

\* len([r for r in repos if r['problem_clarity_score'] is not None])
AnalyzedRepos(repos) ==
    Cardinality({i \in 1..Len(repos) : repos[i].problem_clarity_score # None})

\* The controls of the sidebar a script run reads before it loads: the
\* checkboxes "Show visualization charts" and "Show detailed metrics".
Controls(show_charts, show_detailed_metrics) ==
    [show_charts |-> show_charts,
     show_detailed_metrics |-> show_detailed_metrics]

\* The checkboxes as they start: both ticked.
DefaultControls == Controls(TRUE, TRUE)

\* The int v has more than MaxStrDigits decimal digits, so that writing it
\* into a text (f"{v:,}", f"{v}/5") raises ValueError.  A number of no more
\* than 3 bits to the digit allowed is below 8^4300; for a longer one the
\* digits are counted.
TooLong(v) ==
    /\ v # None
    /\ BitLen(v.m) > 3 * MaxStrDigits
    /\ DivPow10(v.m, MaxStrDigits, FALSE).q # <<>>

\* What a script run has shown: how it ended, the notices (the st.error
\* elements), the overview cards, the chart and the records whose
\* leaderboard rows are begun.  A card that was not shown is None.
View(outcome, exc, notices, summary, chart, leaderboard) ==
    [outcome |-> outcome, exc |-> exc, notices |-> notices,
     summary |-> summary, chart |-> chart, leaderboard |-> leaderboard]

NoSummary ==
    [count |-> None, avg_score |-> None, total_stars |-> None,
     analyzed_repos |-> None]

\* A guard that never finds the list empty.
NoData_never(repos) == FALSE

\* if not repos:
NoData(repos) == repos = <<>>

\* The st.error of the loader, emitted by the call or replayed from the cache
\* entry.
LoaderNotice(c) == IF c.notice = "none" THEN <<>> ELSE <<"load_error">>

\* sum(r['final_score'] for r in repos) / len(repos)
AverageScore(repos) == Divide(FloatSumOf(repos, "final_score"), Len(repos))

\* df.head(10): the rows the chart is drawn from.
ChartRows == 10

\* The values of repo_name that pandas does not count as missing.
Named(repos) == {i \in 1..Len(repos) : repos[i].repo_name # None}

\* df['repo_name'].str raises AttributeError ("Can only use .str accessor
\* with string values") where the names that are not missing are numbers
\* all, or truth values all.
NamesNotText(repos) ==
    /\ Named(repos) # {}
    /\ \E kind \in {"num", "bool", "int", "float"} :
           \A i \in Named(repos) : repos[i].repo_name.t = kind

\* A name is a text: every .str of the chain has a text to work on.
NamesText(repos) ==
    \E i \in 1..Len(repos) : repos[i].repo_name.t = "str"

\* Whether create_score_visualization makes the chart (TRUE) or raises
\* AttributeError (FALSE).  Where no name is a text, and they are not
\* numbers all nor truth values all (maps, a mixture, or none but missing
\* ones), the first .str takes the column and replaces every name by a
\* missing value; whether the second .str takes that column depends on the
\* type pandas gives it, which the program does not fix: both are possible.
ChartMade(repos) ==
    IF NamesText(repos) THEN {TRUE}
    ELSE IF NamesNotText(repos) THEN {FALSE}
    ELSE BOOLEAN

\* No chart; the header of the chart alone; and the chart create_score_
\* visualization draws, one bar of the height final_score for each of the
\* first ten records.  The names written under the bars are not kept.
NoChart == [header |-> FALSE, drawn |-> FALSE, bars |-> <<>>]

ChartHeader == [header |-> TRUE, drawn |-> FALSE, bars |-> <<>>]

Chart(repos) ==
    [header |-> TRUE, drawn |-> TRUE,
     bars |-> [i \in 1..Min(ChartRows, Len(repos)) |-> repos[i].final_score]]

\* The leaderboard row of repo writes a number that is too long: its stars,
\* or with the detailed metrics one of the three scores of an analysis that
\* is there.
RowRaises(repo, controls) ==
    \/ TooLong(repo.stars)
    \/ /\ controls.show_detailed_metrics
       /\ repo.problem_clarity_score # None
       /\ \E k \in {"problem_clarity_score", "adoption_ease_score",
                    "maturity_health_score"} : TooLong(repo[k])
    \/ /\ controls.show_detailed_metrics
       /\ repo.excitement_score # None
       /\ \E k \in {"excitement_score", "problem_solution_fit_score",
                    "credibility_adoption_score"} : TooLong(repo[k])

\* The rows of the leaderboard that are begun when main ends: all of them,
\* or those up to the first that raises.
RowsBegun(repos, controls) ==
    IF \E k \in 1..Len(repos) : RowRaises(repos[k], controls)
    THEN CHOOSE k \in 1..Len(repos) :
             /\ RowRaises(repos[k], controls)
             /\ \A j \in 1..(k - 1) : ~RowRaises(repos[j], controls)
    ELSE Len(repos)

\* main() from format_repo_data on, under the controls, notices being the
\* st.error of the loader, repos what format_repo_data gives and made
\* whether the chart can be made: what it computes on its way.  cards is the number of overview cards it shows (the
\* first is shown before the average is computed, the second before the
\* total of the stars is written); charted says that it comes past the
\* chart; rows is the number of leaderboard rows it begins and row_exc the
\* exception of the last of them.
RunOver(controls, notices, repos, made) ==
    LET avg_score   == IF repos.ok THEN AverageScore(repos.v)
                       ELSE Raise(repos.exc)
        total_stars == IF repos.ok THEN SumOf(repos.v, "stars") ELSE None
        cards       == IF ~repos.ok \/ NoData(repos.v) THEN 0
                       ELSE IF ~avg_score.ok THEN 1
                       ELSE IF TooLong(total_stars) THEN 2
                       ELSE 4
        charted     == cards = 4 /\ (controls.show_charts => made)
        rows        == IF charted THEN RowsBegun(repos.v, controls) ELSE 0
    IN  [controls |-> controls, notices |-> notices, repos |-> repos,
         avg_score |-> avg_score, total_stars |-> total_stars,
         cards |-> cards, charted |-> charted, rows |-> rows,
         row_exc |-> IF rows > 0 /\ RowRaises(repos.v[rows], controls)
                     THEN "ValueError" ELSE "none"]

\* main() after the call c of load_dynamodb_data has returned: the ways it
\* can run.
MainRuns(c, controls) ==
    UNION {{RunOver(controls, LoaderNotice(c), repos, made) :
            made \in IF repos.ok THEN ChartMade(repos.v) ELSE {TRUE}} :
           repos \in {format_repo_data(c.ret)}}

\* The overview cards when the first j of them are shown: Total Repos,
\* Average Score, Total Stars, Analyzed.
Cards(run, j) ==
    [count          |-> IF j >= 1 THEN IntV(Len(run.repos.v)) ELSE None,
     avg_score      |-> IF j >= 2 THEN run.avg_score.v ELSE None,
     total_stars    |-> IF j >= 3 THEN run.total_stars ELSE None,
     analyzed_repos |-> IF j >= 4 THEN IntV(AnalyzedRepos(run.repos.v))
                        ELSE None]

\* What the run has shown when j cards and k rows are out.
Shows(run, outcome, exc, j, chart, k) ==
    View(outcome, exc, run.notices, Cards(run, j), chart,
         SubSeq(run.repos.v, 1, k))

\* The chart of a run that has come past it: none when the box is not
\* ticked.
ChartOf(run) ==
    IF run.controls.show_charts THEN Chart(run.repos.v) ELSE NoChart

\* main from the four overview cards to its end: the average, or the total
\* of the stars when it is written, may end the run with fewer cards; then
\* the chart, where the names may end it; then the rows, where a number may.
Overview(run) ==
    IF run.cards = 1
    THEN Shows(run, "exception", run.avg_score.exc, 1, NoChart, 0)
    ELSE IF run.cards = 2
    THEN Shows(run, "exception", "ValueError", 2, NoChart, 0)
    ELSE IF ~run.charted
    THEN Shows(run, "exception", "AttributeError", 4, ChartHeader, 0)
    ELSE IF run.row_exc # "none"
    THEN Shows(run, "exception", run.row_exc, 4, ChartOf(run), run.rows)
    ELSE Shows(run, "rendered", "none", 4, ChartOf(run), run.rows)

\* What the run shows when nothing stops it.  An exception of
\* format_repo_data, of the statistics, of the chart or of a row ends the
\* script run.
MainEnd(run) ==
    IF ~run.repos.ok
    THEN View("exception", run.repos.exc, run.notices, NoSummary, NoChart,
              <<>>)
    ELSE IF NoData(run.repos.v)
    THEN View("no_data", "none", run.notices \o <<"no_data">>, NoSummary,
              NoChart, <<>>)
    ELSE Overview(run)

\* A script run that is stopped, for a rerun or by the user, ends at the st
\* call it makes next.  The places p where a run that has made its call can
\* end: at the st.error of the except clause, or at the replay of the
\* st.error a cached entry carries ("call"); where the spinner of the
\* decorator closes, the value being stored ("stored"); after the call,
\* where the spinner of main closes or at the st call main makes before a
\* card is shown ("spinner"); at the st call made when n cards are shown
\* ("card"); at st.plotly_chart, the header of the chart being shown (n = 1),
\* or at the header of the leaderboard, the chart being shown (n = 2)
\* ("chart"); at the st call made when the cards are shown and n rows of the
\* leaderboard are begun ("row").
StopPoints ==
    {[at |-> "call", n |-> 0], [at |-> "stored", n |-> 0],
     [at |-> "spinner", n |-> 0]}
    \cup {[at |-> "card", n |-> j] : j \in 1..4}
    \cup {[at |-> "chart", n |-> j] : j \in 1..2}
    \cup {[at |-> "row", n |-> k] : k \in 1..SliderMax}

\* The run comes to the place p: the loader emits its st.error; or the call
\* returns; for a card, main comes to the st call behind it, which for the
\* first card takes the average and for the second the total of the stars
\* written; for the chart, the box is ticked and the chart is made; for a
\* row, main begins it.
Reaches(run, p) ==
    CASE p.at = "call"  -> run.notices # <<>>
      [] p.at \in {"stored", "spinner"} -> TRUE
      [] p.at = "card"  -> run.cards >= 2 /\ (p.n >= 2 => run.cards = 4)
      [] p.at = "chart" -> run.charted /\ run.controls.show_charts
      [] p.at = "row"   -> p.n <= run.rows

\* What a run has shown that was stopped inside the body or the replay:
\* nothing.
StoppedInCall == View("stopped", "none", <<>>, NoSummary, NoChart, <<>>)

\* What a run has shown that was stopped at the place p, the body of its
\* call having returned.
StoppedAt(run, p) ==
    CASE p.at \in {"stored", "spinner"} ->
             View("stopped", "none", run.notices, NoSummary, NoChart, <<>>)
      [] p.at = "card" -> Shows(run, "stopped", "none", p.n, NoChart, 0)
      [] p.at = "chart" ->
             Shows(run, "stopped", "none", 4,
                   IF p.n = 1 THEN ChartHeader ELSE ChartOf(run), 0)
      [] p.at = "row" ->
             Shows(run, "stopped", "none", 4, ChartOf(run), p.n)

NoRender == View("none", "none", <<>>, NoSummary, NoChart, <<>>)
NoFormat == [done |-> FALSE, args |-> <<>>, result |-> Ok(<<>>)]
Idle == [pc |-> "idle"]
\* ------------------------------------------------------------------------
\* Bounds and the records the table holds
\* ------------------------------------------------------------------------

\* The longest table: one item more than the smallest limit of the slider,
\* so that the slice cuts.
MaxItems == 6
\* The items the upstream analysis writes while the dashboard is watched.
MaxPuts == 1
\* The script runs that are followed over time.
MaxRuns == 2

Missing == [t |-> "missing"]
Opt(k, v) == IF v = Missing THEN <<>> ELSE k :> v

Item(name, fs, oss, ra, ca) ==
    Opt("repo_name", name) @@ Opt("final_score", fs)
    @@ Opt("oss_insight_data", oss) @@ Opt("repo_analysis", ra)
    @@ Opt("community_analysis", ca)

Text75 == Text(<<"7", ".", "5">>)
Text10 == Text(<<"1", "0">>)
TextX  == Text(<<"x">>)
TextNaN == Text(<<"n", "a", "n">>)
Text1e1 == Text(<<"1", "e", "1">>)
Text1_0 == Text(<<"1", "_", "0">>)
\* "7.5" between a tab and a line feed.
TextPadded == <<9>> \o Text75 \o <<10>>

\* Scores 10, "10" and 5 with 100, 50 and 20 stars; only the last is analysed.
RepoA == Item(StrV(Text(<<"A">>)), DecimalV(10, 0),
              DictV("stars" :> DecimalV(100, 0)), Missing, Missing)
RepoB == Item(StrV(Text(<<"B">>)), StrV(Text10),
              DictV("stars" :> DecimalV(50, 0)), Missing, Missing)
RepoC == Item(StrV(Text(<<"C">>)), DecimalV(5, 0),
              DictV("stars" :> DecimalV(20, 0)),
              DictV("problem_clarity_score" :> DecimalV(4, 0)), Missing)
PipelinePool == {RepoA, RepoB, RepoC}

\* The longest table of the renders that are followed through the cards, the
\* chart and the rows.
MaxShown == 2

\* A record whose name is a number, and one whose stars are a text of as
\* many nines as int() takes.
RepoN == Item(DecimalV(7, 0), DecimalV(5, 0),
              DictV("stars" :> DecimalV(20, 0)), Missing, Missing)
RepoH == Item(StrV(Text(<<"H">>)), DecimalV(10, 0),
              DictV("stars" :> StrV([i \in 1..MaxStrDigits |-> Ord["9"]])),
              Missing, Missing)
DisplayPool == {RepoA, RepoC, RepoN}

\* {repo_name: "A", final_score: "7.5"}, {repo_name: "B", final_score: 3} and
\* an item whose score does not parse.
RawA == Item(StrV(Text(<<"A">>)), StrV(Text75), Missing, Missing, Missing)
RawB == Item(StrV(Text(<<"B">>)), DecimalV(3, 0), Missing, Missing, Missing)
RawX == Item(StrV(Text(<<"X">>)), StrV(TextX), Missing, Missing, Missing)
SmallPool == {RawA, RawB, RawX}
\* The items written while the dashboard is watched.
PutPool == {RawA, RawB}

\* The longest table of the runs that compare the two orders of the pipeline.
MaxOrder == 4

\* Items whose final_score is a numeric string, a number or absent: "7.5" and
\* 7.5 tie, N has no score, and Z has a score and a null oss_insight_data;
\* and Q, whose final_score is the string "nan".
RawD == Item(StrV(Text(<<"D">>)), DecimalV(75, -1), Missing, Missing, Missing)
RawN == Item(StrV(Text(<<"N">>)), Missing, Missing, Missing, Missing)
RawZ == Item(StrV(Text(<<"Z">>)), DecimalV(5, 0), None, Missing, Missing)
RawQ == Item(StrV(Text(<<"Q">>)), StrV(TextNaN), Missing, Missing, Missing)
OrderPool == {RawA, RawD, RawB, RawN, RawZ, RawQ}

ScoreKeys == {"problem_clarity_score", "adoption_ease_score", "maturity_health_score"}
CommunityKeys == {"excitement_score", "problem_solution_fit_score",
                  "credibility_adoption_score"}

\* What a stored score may be: null, zero, a number, text.
OptVals == {None, DecimalV(0, 0), DecimalV(4, 0), StrV(TextX)}
NestedObjs(keys) == UNION {[K -> OptVals] : K \in SUBSET keys}

FsVals == {Missing, None, DecimalV(75, -1), StrV(Text75), StrV(TextX),
           StrV(TextPadded), StrV(Text1e1), StrV(TextNaN)}
OssObjs ==
    {Opt("stars", st) @@ Opt("total_score", ts) :
        st \in {Missing, None, DecimalV(100, 0), StrV(Text75), StrV(TextX),
                StrV(Text1_0)},
        ts \in {Missing, DecimalV(75, -1), StrV(TextX)}}
OssVals == {Missing, None} \cup {DictV(m) : m \in OssObjs}

FormatPool ==
    {Item(StrV(Text(<<"A">>)), fs, oss, ra, ca) :
        fs \in FsVals, oss \in OssVals,
        ra \in {Missing, None, DictV(EmptyDict)}, ca \in {Missing, None}}
    \cup
    {Item(StrV(Text(<<"A">>)), DecimalV(75, -1), Missing, DictV(m), ca) :
        m \in NestedObjs(ScoreKeys),
        ca \in {Missing, DictV("excitement_score" :> DecimalV(4, 0))}}
    \cup
    {Item(Missing, DecimalV(75, -1), Missing, ra, DictV(m)) :
        m \in NestedObjs(CommunityKeys),
        ra \in {Missing, DictV("problem_clarity_score" :> DecimalV(4, 0))}}

Stores(pool, n) == UNION {[1..k -> pool] : k \in 0..n}

\* The limits a render is given: the slider's, as far as the table is long.
RenderLimits == SliderMin..Min(SliderMax, MaxItems)

\* The slider position of the renders that are followed over time: where the
\* slider starts.
WatchedLimits == {SliderDefault}

\* The checkboxes of the renders that are followed over time: as they start.
WatchedControls == {DefaultControls}

\* The checkboxes of a render: both ticked, or neither.
RenderControls == {Controls(TRUE, TRUE), Controls(FALSE, FALSE)}

\* Every setting of the checkboxes.
AllControls == {Controls(c, d) : c \in BOOLEAN, d \in BOOLEAN}

\* The ways the loader can fail: no session or resource, a failing request.
FailureKinds == {"connect", "scan"}

\* The script runs that may be under way at once, each on its own thread.
Sessions == {1, 2}

\* The instants the dashboard is looked at.
TimePoints == {TTL - 1, TTL, TTL + 1}

\* ------------------------------------------------------------------------
\* Actions
\* ------------------------------------------------------------------------

\* Session s is inside the body of load_dynamodb_data(limit) and so holds
\* the lock st.cache_data keeps for the computation of that argument.
Computing(s) == sess[s].pc \in {"caught", "scanning", "scanned"}

\* A session computes the value for limit.
Locked(limit) == \E s \in Sessions : Computing(s) /\ sess[s].limit = limit

\* Session s starts the body of load_dynamodb_data(limit), found being what
\* the lookup gave.  When the session or the resource cannot be made the
\* body is in its except clause, body being its outcome; else it sends the
\* request and waits.
Begin(s, limit, controls, then, found) ==
    IF ~Connect.ok
    THEN [pc |-> "caught", then |-> then, controls |-> controls,
          limit |-> limit, at |-> now, pre |-> found,
          body |-> BodyUnconnected(limit)]
    ELSE [pc |-> "scanning", then |-> then, controls |-> controls,
          limit |-> limit, at |-> now, pre |-> found]

\* Session s runs main from its start, with the slider at limit and the
\* checkboxes as controls has them, to its call of load_dynamodb_data(limit);
\* then says how far main is followed after the call, to its end ("main") or to the list
\* format_repo_data returns ("format").  The decorator looks the argument
\* up.  A fresh entry is the return value.  Otherwise the session takes the
\* lock of the argument and runs the body, or waits for the lock while
\* another session computes the value.
Call(s, limit, controls, then) ==
    /\ sess[s] = Idle
    /\ runs < MaxRuns
    /\ runs' = runs + 1
    /\ \E found \in {Entry(limit)} :
           sess' = [sess EXCEPT ![s] =
                       IF Fresh(found, now)
                       THEN [pc |-> "loaded", then |-> then,
                             controls |-> controls,
                             c |-> CallHit(limit, now, found)]
                       ELSE IF Locked(limit)
                       THEN [pc |-> "waiting", then |-> then,
                             controls |-> controls, limit |-> limit]
                       ELSE Begin(s, limit, controls, then, found)]
    /\ call' = NoCall
    /\ ui' = NoRender
    /\ UNCHANGED <<store, failure, pageSize, now, cache, fcall>>

\* Session s gets the lock it waited for and looks the argument up again:
\* the entry the other session wrote is the return value while it is fresh;
\* otherwise the body runs.
Acquire(s) ==
    /\ sess[s].pc = "waiting"
    /\ ~Locked(sess[s].limit)
    /\ \E found \in {Entry(sess[s].limit)} :
           sess' = [sess EXCEPT ![s] =
                       IF Fresh(found, now)
                       THEN [pc |-> "loaded", then |-> sess[s].then,
                             controls |-> sess[s].controls,
                             c |-> CallHit(sess[s].limit, now, found)]
                       ELSE Begin(s, sess[s].limit, sess[s].controls,
                                  sess[s].then, found)]
    /\ call' = NoCall
    /\ ui' = NoRender
    /\ UNCHANGED <<store, failure, pageSize, now, cache, runs, fcall>>

\* response = table.scan(): the answer to the request of session s arrives,
\* with the page the table holds now, and the body goes on to its return
\* statement, or to the st.error of its except clause: body is its outcome.
ScanResponse(s) ==
    /\ sess[s].pc = "scanning"
    /\ sess' = [sess EXCEPT ![s] =
                   [pc |-> "scanned", then |-> sess[s].then,
                    controls |-> sess[s].controls, limit |-> sess[s].limit, at |-> sess[s].at,
                    pre |-> sess[s].pre,
                    body |-> BodyAfterScan(sess[s].limit, Scan)]]
    /\ call' = NoCall
    /\ ui' = NoRender
    /\ UNCHANGED <<store, failure, pageSize, now, cache, runs, fcall>>

\* The call of session s as it returns: a cached value, or the return value
\* of the body, which the decorator stores under the limit with the time of
\* the write.
Returned(s) ==
    IF sess[s].pc = "loaded" THEN sess[s].c
    ELSE CallMiss(sess[s].limit, sess[s].at, sess[s].pre, sess[s].body, now)

\* Session s has what its call returns for the taking.
Returning(s) == sess[s].pc \in {"loaded", "caught", "scanned"}

\* The cache when the call c of session s has returned.
CacheReturned(s, c) == IF Computing(s) THEN CacheAfter(c) ELSE cache

\* The call of session s returns, and main() runs from
\* format_repo_data(raw_data) to its end.
Show(s) ==
    /\ Returning(s)
    /\ sess[s].then = "main"
    /\ sess' = [sess EXCEPT ![s] = Idle]
    /\ \E c \in {Returned(s)} :
       \E run \in MainRuns(c, sess[s].controls) :
           /\ cache' = CacheReturned(s, c)
           /\ call' = c
           /\ ui' = MainEnd(run)
    /\ UNCHANGED <<store, failure, pageSize, now, runs, fcall>>

\* The script run of session s is stopped at one of the places it comes
\* to.  Inside the body or the replay, the call does not return: nothing is
\* stored and nothing is shown.  Later, the value is stored, and the run has
\* shown what it shows before the place; where the decorator ends, main does
\* not get the value.
Stop(s) ==
    /\ Returning(s)
    /\ sess[s].then = "main"
    /\ sess' = [sess EXCEPT ![s] = Idle]
    /\ \E c \in {Returned(s)} :
       \E run \in MainRuns(c, sess[s].controls) :
       \E p \in StopPoints :
           /\ Reaches(run, p)
           /\ IF p.at = "call"
              THEN /\ cache' = cache
                   /\ call' = NotReturned(c)
                   /\ ui' = StoppedInCall
              ELSE /\ cache' = CacheReturned(s, c)
                   /\ call' = IF p.at = "stored" THEN NotHandedOver(c) ELSE c
                   /\ ui' = StoppedAt(run, p)
    /\ UNCHANGED <<store, failure, pageSize, now, runs, fcall>>

\* The call of session s returns, and repos = format_repo_data(raw_data).
FormatLoaded(s) ==
    /\ Returning(s)
    /\ sess[s].then = "format"
    /\ sess' = [sess EXCEPT ![s] = Idle]
    /\ \E c \in {Returned(s)} :
           /\ cache' = CacheReturned(s, c)
           /\ call' = c
           /\ fcall' = [done |-> TRUE, args |-> c.ret,
                        result |-> format_repo_data(c.ret)]
    /\ ui' = NoRender
    /\ UNCHANGED <<store, failure, pageSize, now, runs>>

\* One call of format_repo_data on the chosen items.
FormatCall ==
    /\ ~fcall.done
    /\ fcall' = [fcall EXCEPT !.done = TRUE,
                              !.result = format_repo_data(fcall.args)]
    /\ UNCHANGED <<store, failure, pageSize, now, cache, sess, runs, call, ui>>

\* Time passes.
Tick(t) ==
    /\ t > now
    /\ now' = t
    /\ call' = NoCall
    /\ ui' = NoRender
    /\ UNCHANGED <<store, failure, pageSize, cache, sess, runs, fcall>>

\* The upstream analysis writes an item to the table.
StorePut(item) ==
    /\ Len(store) < MaxPuts
    /\ store' = Append(store, item)
    /\ call' = NoCall
    /\ ui' = NoRender
    /\ UNCHANGED <<failure, pageSize, now, cache, sess, runs, fcall>>

\* The way to the table breaks, and is mended.
StoreFail(kind) ==
    /\ storeUp
    /\ failure' = kind
    /\ call' = NoCall
    /\ ui' = NoRender
    /\ UNCHANGED <<store, pageSize, now, cache, sess, runs, fcall>>

StoreRecover ==
    /\ ~storeUp
    /\ failure' = "none"
    /\ call' = NoCall
    /\ ui' = NoRender
    /\ UNCHANGED <<store, pageSize, now, cache, sess, runs, fcall>>

\* ------------------------------------------------------------------------
\* Specifications
\* ------------------------------------------------------------------------

AllIdle == [s \in Sessions |-> Idle]

\* The dashboard over time: script runs of two sessions, the clock, the
\* table changing and failing.  Of two idle sessions the first one starts.
Init ==
    /\ store = <<>>
    /\ failure = "none"
    /\ pageSize = MaxItems
    /\ now = 0
    /\ cache = <<>>
    /\ sess = AllIdle
    /\ runs = 0
    /\ call = NoCall
    /\ ui = NoRender
    /\ fcall = NoFormat

Next ==
    \/ \E s \in Sessions, limit \in WatchedLimits :
           (s = 1 \/ sess[1] # Idle)
               /\ \E controls \in WatchedControls :
                      Call(s, limit, controls, "main")
    \/ \E s \in Sessions : Acquire(s)
    \/ \E s \in Sessions : ScanResponse(s)
    \/ \E s \in Sessions : Show(s)
    \/ \E s \in Sessions : Stop(s)
    \/ \E t \in TimePoints : Tick(t)
    \/ \E item \in PutPool : StorePut(item)
    \/ \E kind \in FailureKinds : StoreFail(kind)
    \/ StoreRecover

Spec == Init /\ [][Next]_vars

\* One render on every table and page size.
InitPipeline ==
    /\ store \in Stores(PipelinePool, MaxItems)
    /\ failure = "none"
    /\ pageSize \in {2, MaxItems}
    /\ now = 0
    /\ cache = <<>>
    /\ sess = AllIdle
    /\ runs = 0
    /\ call = NoCall
    /\ ui = NoRender
    /\ fcall = NoFormat

NextPipeline ==
    \/ \E limit \in RenderLimits, controls \in RenderControls :
           runs = 0 /\ Call(1, limit, controls, "main")
    \/ ScanResponse(1)
    \/ Show(1)
    \/ Stop(1)

SpecPipeline == InitPipeline /\ [][NextPipeline]_vars

\* One render, under every setting of the checkboxes, on every short table
\* of records with and without a name that is text, and on a table whose
\* stars add up to a number of more than MaxStrDigits digits.
InitDisplay ==
    /\ store \in Stores(DisplayPool, MaxShown) \cup {<<RepoH, RepoA>>}
    /\ failure = "none"
    /\ pageSize = MaxItems
    /\ now = 0
    /\ cache = <<>>
    /\ sess = AllIdle
    /\ runs = 0
    /\ call = NoCall
    /\ ui = NoRender
    /\ fcall = NoFormat

NextDisplay ==
    \/ \E controls \in AllControls :
           runs = 0 /\ Call(1, SliderDefault, controls, "main")
    \/ ScanResponse(1)
    \/ Show(1)
    \/ Stop(1)

SpecDisplay == InitDisplay /\ [][NextDisplay]_vars

\* format_repo_data on every shape of item.
InitFormat ==
    /\ store = <<>>
    /\ failure = "none"
    /\ pageSize = MaxItems
    /\ now = 0
    /\ cache = <<>>
    /\ sess = AllIdle
    /\ runs = 0
    /\ call = NoCall
    /\ ui = NoRender
    /\ fcall \in {[done |-> FALSE, args |-> a, result |-> Ok(<<>>)] :
                    a \in {<<r>> : r \in FormatPool} \cup Stores(SmallPool, 2)}

NextFormat == FormatCall

SpecFormat == InitFormat /\ [][NextFormat]_vars

\* The loader and the formatting, one after the other, on every table of
\* scored items and every limit from 0.
InitOrder ==
    /\ store \in Stores(OrderPool, MaxOrder)
    /\ failure = "none"
    /\ pageSize = MaxOrder
    /\ now = 0
    /\ cache = <<>>
    /\ sess = AllIdle
    /\ runs = 0
    /\ call = NoCall
    /\ ui = NoRender
    /\ fcall = NoFormat

NextOrder ==
    \/ \E limit \in 0..MaxOrder : runs = 0 /\ Call(1, limit, DefaultControls, "format")
    \/ ScanResponse(1)
    \/ FormatLoaded(1)

SpecOrder == InitOrder /\ [][NextOrder]_vars


\* ------------------------------------------------------------------------
\* The cache over time
\* ------------------------------------------------------------------------

\* A script run has come to its end and shown something.
Shown == ui.outcome \notin {"none", "stopped"}

\* The entry the last call found at its lookup is one a lookup at that
\* instant may use.
ValidAtCall == call.pre # NoEntry /\ call.at - call.pre.cached_at < TTL

\* C1: a call is served from the cache, without running the loader and so
\* without a scan, exactly when at its lookup an entry for its limit exists
\* with now - cached_at < 300, and it then returns the sequence stored at
\* cached_at; every other call runs the loader exactly once, which makes one
\* scan request, or none when it cannot reach the table.
C1_ServedFromCacheWithinTtl ==
    call # NoCall =>
        /\ ~call.ran <=> ValidAtCall
        /\ ValidAtCall =>
               /\ call.scans = 0
               /\ call.post = call.pre
               /\ call.returned => call.ret = call.pre.value
        /\ ~ValidAtCall =>
               /\ call.scans <= 1
               /\ call.scans = 0 => call.caught # "none"
               /\ call.returned => call.post.cached_at >= call.at

\* A lookup 299 after the fetch is served the stored sequence, without a scan,
\* although the table has grown since.
C1_Witness ==
    /\ call # NoCall
    /\ call.returned
    /\ ~call.ran
    /\ call.scans = 0
    /\ call.at - call.pre.cached_at = TTL - 1
    /\ call.ret = call.pre.value
    /\ storeUp
    /\ Len(store) > Len(call.ret)
    /\ \A i \in 1..Len(store) : SortKey(store[i]).ok

\* C2: a failing fetch leaves the cache entry of its limit as it was and the
\* error reaches the caller; no later call is served the result of a failed
\* fetch from the cache.
C2_FailureNotCached ==
    call # NoCall =>
        /\ call.caught # "none" => call.post = call.pre
        /\ ~call.ran => call.pre.caught = "none"

\* C7: a failing fetch never ends the script run with an exception, and no
\* statistic and no leaderboard entry is produced.  The loader returns the
\* empty list, and a run that goes on to its end reports "no data" and shows
\* both notices; a run that Streamlit stops has shown the notice it came
\* to, and one stopped before the loader returned has shown nothing and
\* stored nothing.
C7_StoreErrorRendersNoData ==
    (call # NoCall /\ call.caught # "none") =>
        /\ call.ret = <<>>
        /\ ui.outcome \in {"no_data", "stopped"}
        /\ ui.exc = "none"
        /\ ui.summary = NoSummary
        /\ ui.leaderboard = <<>>
        /\ Shown =>
               /\ call.returned
               /\ ui.notices = <<"load_error", "no_data">>
        /\ ~call.returned => ui.outcome = "stopped"
        /\ call.post = call.pre =>
               /\ ui = StoppedInCall
               /\ Entry(call.limit) = call.pre

\* The table holds items and an older entry with records exists, the request
\* fails, and the render ends with the notices.
C7_Witness ==
    /\ call # NoCall
    /\ call.returned
    /\ call.caught = "ClientError"
    /\ call.scans = 1
    /\ store # <<>>
    /\ call.pre # NoEntry
    /\ call.pre.value # <<>>
    /\ ui.outcome = "no_data"

\* ------------------------------------------------------------------------
\* Ranking
\* ------------------------------------------------------------------------

\* The score of a stored item: the float its sort key is.
ScoreOf(x) == SortKey(x).v

\* The scores of a list of items.
ScoresOf(items) == [i \in 1..Len(items) |-> ScoreOf(items[i])]

\* The place of the i-th item in the stable descending order of the items
\* whose scores are keys: behind every item of higher score and every
\* earlier item of equal score.
PlaceOf(keys, i) ==
    1 + Cardinality({j \in 1..Len(keys) :
                        \/ FloatLt(keys[i], keys[j])
                        \/ FloatEq(keys[j], keys[i]) /\ j < i})

\* The list is a list of min(limit, len(items)) items, non-increasing by
\* score, the first of the stable descending order of items.
RankedPrefixOf(ret, items, limit) ==
    \E keys \in {ScoresOf(items)}, got \in {ScoresOf(ret)} :
        /\ Len(ret) = Min(limit, Len(items))
        /\ \A i, j \in 1..Len(ret) :
               i < j => /\ ~FloatLt(got[i], got[j])
                        /\ got[i].k # "nan"
                        /\ got[j].k # "nan"
        /\ \A i \in 1..Len(items) :
               (PlaceOf(keys, i) <= limit /\ Len(ret) = Min(limit, Len(items)))
                   => ret[PlaceOf(keys, i)] = items[i]
        /\ limit = 0 => ret = <<>>

\* C3: ranking returns min(limit, len(input)) records, non-increasing by
\* score, the first of the stable descending order of the input (records of
\* equal score in scan order), and none when limit = 0.
C3_RankedPrefixOfStableSort ==
    (call # NoCall /\ call.sorted) =>
        RankedPrefixOf(call.ret, call.items, call.limit)

\* No score of the items is nan.
ScoresOrdered(items) ==
    \A i \in 1..Len(items) : SortKey(items[i]).ok /\ ScoreOf(items[i]).k # "nan"

\* Where no score is nan, the returned list is the ranked prefix.
RankedWhereOrdered ==
    (call # NoCall /\ call.sorted /\ ScoresOrdered(call.items)) =>
        RankedPrefixOf(call.ret, call.items, call.limit)

\* The scan gave D (7.5), B (3), A ("7.5") and the limit is 2: D and A are
\* returned, D first.
RankedOnTies ==
    /\ call # NoCall
    /\ call.sorted
    /\ call.limit = 2
    /\ call.items = <<RawD, RawB, RawA>>
    /\ call.ret = <<RawD, RawA>>

\* C8: one call collects every page, so the ranked sequence is built from the
\* whole table: no stored record that outscores a returned one is left out.
C8_AllPagesRanked ==
    (call # NoCall /\ call.sorted) =>
        \E keys \in {ScoresOf(store)}, got \in {ScoresOf(call.ret)} :
            \A j \in 1..Len(store) : \A i \in 1..Len(call.ret) :
                FloatLt(got[i], keys[j]) =>
                    \E k \in 1..Len(call.ret) : call.ret[k] = store[j]

\* ------------------------------------------------------------------------
\* The overview statistics
\* ------------------------------------------------------------------------

\* The sum of the scores of the records lo..hi of board added to acc, one
\* after the other as floats.
RECURSIVE ScoreSum(_, _, _, _)
ScoreSum(board, lo, hi, acc) ==
    IF lo > hi THEN acc
    ELSE IF lo = hi THEN FloatAdd(acc, board[lo].final_score)
    ELSE The({ScoreSum(board, (lo + hi) \div 2 + 1, hi, front) :
              front \in {ScoreSum(board, lo, (lo + hi) \div 2, acc)}})

\* The stars of the first n records of board, added up from the last.
RECURSIVE StarsOf(_, _)
StarsOf(board, n) ==
    IF n = 0 THEN IntV(0) ELSE IntAdd(board[n].stars, StarsOf(board, n - 1))

\* The four statistics of the view records board.
StatisticsOf(board) ==
    [count          |-> IntV(Len(board)),
     avg_score      |-> Divide(ScoreSum(board, 1, Len(board), Zero(FALSE)),
                               Len(board)).v,
     total_stars    |-> StarsOf(board, Len(board)),
     analyzed_repos |-> IntV(Cardinality({i \in 1..Len(board) :
                               board[i].problem_clarity_score # None}))]

\* The four cards of the overview are shown.
SummaryShown == \A f \in DOMAIN ui.summary : ui.summary[f] # None

\* C9: for every ranked list with records, a render that is not stopped on
\* its way produces the summary, computed over exactly the ranked,
\* truncated list the loader returned: count is its length, the average the
\* sum of its scores over the count, total stars the sum of its stars, and
\* the analysed count the number of its records with a clarity score.
C9_SummaryOverRankedSet ==
    (Shown /\ call.returned /\ call.ret # <<>>) =>
        /\ SummaryShown
        /\ \E ranked \in {format_repo_data(call.ret)} :
               /\ ranked.ok
               /\ Len(ranked.v) = Len(call.ret)
               /\ call.ran => Len(ranked.v) = Min(call.limit, Len(call.items))
               /\ ui.summary = StatisticsOf(ranked.v)

\* Every card a render shows is the statistic of the ranked, truncated list
\* the loader returned, and the rows it begins are the first of that list.
CardsOverRankedSet ==
    (call # NoCall /\ call.returned /\ call.ret # <<>>
     /\ ui.summary # NoSummary) =>
        \E ranked \in {format_repo_data(call.ret).v} :
            /\ Len(ranked) = Len(call.ret)
            /\ call.ran => Len(ranked) = Min(call.limit, Len(call.items))
            /\ \A f \in DOMAIN ui.summary :
                   ui.summary[f] # None =>
                       ui.summary[f] = StatisticsOf(ranked)[f]
            /\ ui.leaderboard = SubSeq(ranked, 1, Len(ui.leaderboard))

\* A render that comes to its end shows the four cards, and a row for each
\* record, unless it ends with an exception.
RenderedInFull ==
    Shown =>
        \/ ui.outcome \in {"no_data", "exception"}
        \/ /\ ui.outcome = "rendered"
           /\ SummaryShown
           /\ Len(ui.leaderboard) = Len(call.ret)
           /\ ui.chart \in {NoChart, Chart(format_repo_data(call.ret).v)}

\* The stars of the two records add up to a number of 4301 digits: the
\* render ends with ValueError where the total is written, having shown the
\* count and the average and no more.
SummaryCutShort ==
    /\ Shown
    /\ call.ret = <<RepoH, RepoA>>
    /\ ui.outcome = "exception"
    /\ ui.exc = "ValueError"
    /\ ui.summary.count = IntV(2)
    /\ ui.summary.avg_score = FloatV("fin", FALSE, <<5>>, 1)
    /\ ui.summary.total_stars = None
    /\ ui.summary.analyzed_repos = None
    /\ ui.leaderboard = <<>>

\* The names are numbers and the chart is asked for: the render ends with
\* AttributeError behind the four cards and the header of the chart.
ChartCutShort ==
    /\ Shown
    /\ call.ret = <<RepoN>>
    /\ ui.outcome = "exception"
    /\ ui.exc = "AttributeError"
    /\ SummaryShown
    /\ ui.chart = ChartHeader
    /\ ui.leaderboard = <<>>

\* Six records were scanned and the limit is 5: the statistics are those of
\* the five kept (average 9.0, 320 stars), one of them analysed, and differ
\* from those of the six.
SummaryOfFive ==
    /\ call # NoCall
    /\ Shown
    /\ ui.outcome = "rendered"
    /\ call.limit = SliderMin
    /\ call.items = <<RepoC, RepoC, RepoA, RepoB, RepoA, RepoB>>
    /\ ui.summary = [count |-> IntV(5),
                     avg_score |-> FloatV("fin", FALSE, <<9>>, 0),
                     total_stars |-> IntV(320), analyzed_repos |-> IntV(1)]

\* 25/3 as Python prints the quotient 25.0 / 3.
Text25Thirds ==
    Text(<<"8", ".", "3", "3", "3", "3", "3", "3", "3", "3", "3", "3", "3",
           "3", "3", "3", "3", "4">>)

\* Scores [10, 10, 5] with stars [100, 50, 20]: count 3, average 25/3 to the
\* nearest double and 170 stars.
SummaryOfThree ==
    /\ call # NoCall
    /\ Shown
    /\ call.items = <<RepoA, RepoB, RepoC>>
    /\ ui.summary = [count |-> IntV(3),
                     avg_score |-> ParseFloat(Text25Thirds).v,
                     total_stars |-> IntV(170), analyzed_repos |-> IntV(1)]

\* C10 as stated: an empty ranked set yields the statistics count 0, average
\* 0.0, total 0 and analysed count 0, and nothing divides by zero.
C10_EmptySummaryIsZero ==
    (Shown /\ call.ret = <<>>) =>
        /\ ui.exc # "ZeroDivisionError"
        /\ ui.summary = [count |-> IntV(0), avg_score |-> Zero(FALSE),
                         total_stars |-> IntV(0), analyzed_repos |-> IntV(0)]

\* C10 as amended: with an empty ranked set main shows the "no data" notice
\* and returns before the statistics, so no statistic is produced; and no
\* render divides by zero.
C10_EmptySkipsStatistics ==
    Shown =>
        /\ ui.exc # "ZeroDivisionError"
        /\ call.ret = <<>> =>
               /\ ui.outcome = "no_data"
               /\ ui.notices = <<"no_data">>
               /\ ui.summary = NoSummary
               /\ ui.leaderboard = <<>>

\* The table is empty, the scan succeeds, and the render ends with the notice.
C10_Witness ==
    /\ Shown
    /\ call.scans = 1
    /\ call.caught = "none"
    /\ call.items = <<>>
    /\ ui.outcome = "no_data"

\* ------------------------------------------------------------------------
\* Formatting
\* ------------------------------------------------------------------------

\* C4: format_repo_data returns a record for every item, whatever its shape:
\* it never raises, so no item costs the others their place in the result.
C4_NormalizationTotal ==
    fcall.done =>
        /\ fcall.result.ok
        /\ Len(fcall.result.v) = Len(fcall.args)

\* The value stored under key k of the nested object obj of item, if any.
Nested(item, obj, k) ==
    IF obj \in DOMAIN item /\ item[obj].t = "map" /\ k \in DOMAIN item[obj].m
    THEN item[obj].m[k]
    ELSE Missing

OptionalFields ==
    {<<"repo_analysis", k>> : k \in ScoreKeys}
    \cup {<<"community_analysis", k>> : k \in CommunityKeys}

\* C5: each of the six optional scores is present in the formatted record
\* exactly when its nested field exists and is not null, for every stored
\* number; only a missing or null field makes it absent.
C5_PresentIffStoredNonNull ==
    (fcall.done /\ fcall.result.ok) =>
        \A i \in 1..Len(fcall.args) : \A f \in OptionalFields :
            LET stored == Nested(fcall.args[i], f[1], f[2])
            IN  stored.t \in {"missing", "null", "num"} =>
                    (fcall.result.v[i][f[2]] # None
                        <=> stored.t = "num")

\* The defaults of the fields of the nested objects that item lacks.
DefaultsOfMissing(item, repo) ==
    /\ "oss_insight_data" \notin DOMAIN item =>
           /\ repo.stars = IntV(0)
           /\ repo.total_score = Zero(FALSE)
           /\ repo.description = StrV(NoDescriptionText)
    /\ "repo_analysis" \notin DOMAIN item =>
           /\ \A k \in ScoreKeys : repo[k] = None
           /\ repo.problem_solved = StrV(NotAnalyzedText)
    /\ "community_analysis" \notin DOMAIN item =>
           /\ \A k \in CommunityKeys : repo[k] = None
           /\ repo.key_praise_quote = StrV(<<>>)
           /\ repo.main_criticism = StrV(<<>>)

LacksNested(item) ==
    \E obj \in {"oss_insight_data", "repo_analysis", "community_analysis"} :
        obj \notin DOMAIN item

\* C6: for every item that lacks a nested object, formatting raises nothing
\* and gives the fields of that object their defaults; a single item without
\* repo_analysis counts as not analysed.
C6_MissingObjectsDefault ==
    (fcall.done /\ \E i \in 1..Len(fcall.args) : LacksNested(fcall.args[i])) =>
        /\ fcall.result.ok
        /\ \A i \in 1..Len(fcall.args) :
               DefaultsOfMissing(fcall.args[i], fcall.result.v[i])
        /\ (Len(fcall.args) = 1 /\ "repo_analysis" \notin DOMAIN fcall.args[1])
               => AnalyzedRepos(fcall.result.v) = 0

\* Where formatting returns, the fields of a lacking object have their
\* defaults.
DefaultsWhereFormatted ==
    (fcall.done /\ fcall.result.ok) =>
        \A i \in 1..Len(fcall.args) :
            DefaultsOfMissing(fcall.args[i], fcall.result.v[i])

\* ------------------------------------------------------------------------
\* Ranking before formatting, and formatting before ranking
\* ------------------------------------------------------------------------

\* The view record r put into the descending list s behind every record whose
\* score is not smaller.
RankInsert(s, r) ==
    SubSeq(s, 1, Cardinality({i \in 1..Len(s) :
                                 ~FloatLt(s[i].final_score, r.final_score)}))
    \o <<r>>
    \o SubSeq(s, 1 + Cardinality({i \in 1..Len(s) :
                                     ~FloatLt(s[i].final_score, r.final_score)}),
              Len(s))

RECURSIVE RankedPrefix(_, _)
RankedPrefix(records, n) ==
    IF n = 0 THEN <<>>
    ELSE The({RankInsert(front, records[n]) :
              front \in {RankedPrefix(records, n - 1)}})

\* rank(records, limit) of the specification: a stable descending sort of the
\* view records on their score, cut to the first limit of them.
rank(records, limit) ==
    SubSeq(RankedPrefix(records, Len(records)), 1, Min(limit, Len(records)))

\* The specified order: every scanned item is formatted, then the view
\* records are ranked.
NormalizeThenRank(items, limit) ==
    CHOOSE out \in
        {IF ~views.ok THEN views
         ELSE [ok |-> TRUE, v |-> rank(views.v, limit), exc |-> "none"] :
            views \in {format_repo_data(items)}} : TRUE

\* The scanned items have a final_score that is absent, a number or a numeric
\* string: one float() makes a number of.
ScoresRankable(items) == ScoresOrdered(items)

\* C11: for every table of items whose final_score is absent, a number or a
\* numeric string, and every limit from 0, ranking the raw items and then
\* formatting them (the code) gives the same view records as formatting every
\* item and then ranking the view records (the specification): both give a
\* list, of min(limit, number of items) records, the same records in the same
\* order with the same scores; and formatting gives one record per item it is
\* given, in the order given.
C11_RankThenFormatEqualsFormatThenRank ==
    (fcall.done /\ call.scans = 1 /\ ScoresRankable(call.items)) =>
        \E specified \in {NormalizeThenRank(call.items, call.limit)} :
            /\ fcall.result.ok
            /\ specified.ok
            /\ fcall.result.v = specified.v
            /\ Len(fcall.result.v) = Min(call.limit, Len(call.items))
            /\ Len(fcall.result.v) = Len(fcall.args)
            /\ \A i \in 1..Len(fcall.args) :
                   fcall.result.v[i] = FormatItem(fcall.args[i]).v

\* Where every scanned item formats, the two orders give the same view
\* records, and formatting keeps the number and the order of its items.
OrdersAgreeWhereFormatted ==
    (fcall.done /\ call.scans = 1 /\ ScoresRankable(call.items)
     /\ format_repo_data(call.items).ok) =>
        \E specified \in {NormalizeThenRank(call.items, call.limit)} :
            /\ fcall.result.ok
            /\ specified.ok
            /\ fcall.result.v = specified.v
            /\ Len(fcall.result.v) = Min(call.limit, Len(call.items))
            /\ Len(fcall.result.v) = Len(fcall.args)
            /\ \A i \in 1..Len(fcall.args) :
                   fcall.result.v[i] = FormatItem(fcall.args[i]).v

\* The item cut off by the limit is the only one that does not format: the
\* code returns view records where formatting every item first raises.
OrdersDifferPastLimit ==
    /\ fcall.done /\ call.scans = 1 /\ ScoresRankable(call.items)
    /\ fcall.result.ok
    /\ fcall.result.v # <<>>
    /\ ~format_repo_data(call.items).ok

\* Tied scores, a cut, and every item formatting: the orders are compared on
\* a table where "7.5" and 7.5 tie and the limit drops an item.
OrdersComparedOnTies ==
    /\ fcall.done /\ call.scans = 1
    /\ format_repo_data(call.items).ok
    /\ call.limit < Len(call.items)
    /\ Len(fcall.result.v) >= 2
    /\ fcall.result.v[1].repo_name = StrV(Text(<<"D">>))
    /\ fcall.result.v[2].repo_name = StrV(Text(<<"A">>))
====
